---- MODULE Spec2Model ----
(***************************************************************************)
(* Virtual StackLink device simulator (staefy/virtual_lablinx).            *)
(*                                                                         *)
(* Device State (src/server.py, class StackLinkState): the track stops,    *)
(* the plate stacks, the lift map, the error-flag table and the plate-id   *)
(* counter.  The command handlers are the cmd_* methods of StackLinkState  *)
(* reached through handle_command; the dashboard writes are                *)
(* set_error_flag, set_plate_presence, reset_state and set_stack_count.    *)
(*                                                                         *)
(* The stop count and the stack capacity are constructor values of the     *)
(* source (8 stops, capacity 30, 15 plates in stack 1); the model runs the *)
(* same code on a smaller track and smaller magazines.                     *)
(*                                                                         *)
(* Spec runs one command or dashboard write at a time.  SpecThreads and    *)
(* SpecMoves run the delay handlers of src/stacklink_commands.py from one  *)
(* thread per connection, as TCPServer.run starts them.  SpecConns runs    *)
(* TCPServer.handle_client: the receive buffer, the lines and the answers  *)
(* of each connection.                                                     *)
(***************************************************************************)
EXTENDS Integers, Sequences, FiniteSets, TLC

\* ------------------------------------------------------------------ bounds
NumStops == 4        \* stops 1..NumStops (num_stops of __init__)
Capacity == 2        \* capacity of every stack
MaxPlates == 2       \* at most this many plates are put on the track at once
\* The exploration keeps (plate ids issued since the last reset) + (error flags
\* set) + (stops ignored) within MaxLoad.
MaxLoad == 2
NumConns == 2        \* client connections open at the same time
MaxSends == 2        \* lines a client writes to one connection

\* ------------------------------------------------------- program constants
NumStacks == 2
\* plate_id of a stop that carries no identifier (Python None)
None == 0

VARIABLES
    stops,          \* self.stops: index -> [has_plate, ignored, plate_id]
    stacks,         \* self.stacks: index -> [capacity, count]
    error_flags,    \* self.error_flags: name -> bool
    next_plate_id,  \* self.next_plate_id
    last,           \* the exchange in progress: what was asked and answered
    pc,             \* connection -> where its handler thread is
    frame,          \* connection -> the local variables of its handler
    active_moves,   \* state.active_moves: the moves in progress, by plate id
    conn            \* connection -> its socket, receive buffer and answers

vars == <<stops, stacks, error_flags, next_plate_id, last,
          pc, frame, active_moves, conn>>
threadVars == <<pc, frame, active_moves, conn>>

Conns == 1..NumConns

StopIds == 1..NumStops
StackIds == 1..NumStacks

\* self.lift_map = {1: 3, 2: 4}
lift_map == (1 :> 3) @@ (2 :> 4)

\* self.default_stack_counts, captured by __init__
\* (stack 1 starts half full: 15 of 30 in the source)
default_stack_counts == [i \in StackIds |-> IF i = 1 THEN Capacity \div 2 ELSE 0]

FlagNames == {"dispense_failure", "lift_blocked", "stack_full", "movement_blocked"}

TrackStop(i) == [has_plate |-> FALSE, ignored |-> FALSE, plate_id |-> None]

Stack(i, cap, cnt) == [capacity |-> cap, count |-> cnt]

\* ------------------------------------------------------------ argument text
\* A comma-separated field of an argument string: a token int() accepts, or
\* some other word.
IntF(n) == [isint |-> TRUE, n |-> n, w |-> ""]
WordF(s) == [isint |-> FALSE, n |-> 0, w |-> s]

\* str.lower() on the words the model sends
Lower(s) ==
    CASE s = "TRUE" -> "true"
      [] s = "F" -> "f"
      [] s = "Rev" -> "rev"
      [] s = "Plate" -> "plate"
      [] OTHER -> s

\* parts[k].lower() in ("true", "1", "yes")
IsTrue(f) == IF f.isint THEN f.n = 1 ELSE Lower(f.w) \in {"true", "yes"}

\* ---------------------------------------------------------------- Stack
\* Faulty variants of the two Stack methods: a dispense that also succeeds on
\* an empty stack, and a return that does not count the plate.
Stack_dispense_unchecked(stack) ==
    IF stack.count > 0
        THEN [ok |-> TRUE, stack |-> [stack EXCEPT !.count = stack.count - 1]]
        ELSE [ok |-> TRUE, stack |-> stack]

Stack_return_plate_uncounted(stack) ==
    IF stack.count < stack.capacity
        THEN [ok |-> TRUE, stack |-> stack]
        ELSE [ok |-> FALSE, stack |-> stack]

\* a faulty clamp with no upper limit
Clamp_unbounded(count, capacity) == IF count < 0 THEN 0 ELSE count

\* Stack.dispense: the new count and whether a plate was removed
Stack_dispense(stack) ==
    IF stack.count > 0
        THEN [ok |-> TRUE, stack |-> [stack EXCEPT !.count = stack.count - 1]]
        ELSE [ok |-> FALSE, stack |-> stack]

\* Stack.return_plate
Stack_return_plate(stack) ==
    IF stack.count < stack.capacity
        THEN [ok |-> TRUE, stack |-> [stack EXCEPT !.count = stack.count + 1]]
        ELSE [ok |-> FALSE, stack |-> stack]

\* the clamp of reset_state and set_stack_count
Clamp(count, capacity) ==
    IF count < 0 THEN 0
    ELSE IF count > capacity THEN capacity
    ELSE count

\* ------------------------------------------------------- status strings
RECURSIVE JoinFrom(_, _, _)
JoinFrom(parts, k, sep) ==
    IF k > Len(parts) THEN ""
    ELSE IF k = Len(parts) THEN parts[k]
    ELSE parts[k] \o sep \o JoinFrom(parts, k + 1, sep)

Join(parts, sep) == JoinFrom(parts, 1, sep)

\* StackLinkState.stops_status_string, of a stops table
stops_status_string(st) ==
    Join([i \in DOMAIN st |->
            ToString(i) \o ":" \o (IF st[i].has_plate THEN "Object" ELSE "Empty")],
         ", ")

\* StackLinkState.ignored_status_string
ignored_status_string(st) ==
    LET ign == SelectSeq([i \in DOMAIN st |-> i], LAMBDA i : st[i].ignored)
    IN  IF Len(ign) = 0 THEN "None"
        ELSE Join([k \in 1..Len(ign) |-> ToString(ign[k])], ",")

\* ------------------------------------------------------ handler results
\* What a handler leaves behind: its (code, message, extra lines) and the
\* Device State after it; exc is set when the handler raised instead.
Result(code, msg, extra, st, sk, npid) ==
    [code |-> code, msg |-> msg, extra |-> extra, exc |-> FALSE,
     stops |-> st, stacks |-> sk, next_plate_id |-> npid]

\* a handler that returns without touching Device State
Reply(code, msg, extra) == Result(code, msg, extra, stops, stacks, next_plate_id)

\* a handler that raised after leaving st, sk behind
Raised(st, sk, npid) ==
    [code |-> 9999, msg |-> "Internal error", extra |-> <<>>, exc |-> TRUE,
     stops |-> st, stacks |-> sk, next_plate_id |-> npid]

\* ------------------------------------------------------ command handlers
\* Every handler takes the fields of args.split(",") (one empty field when
\* the argument string is empty) and reads the Device State variables.

InvalidParameters == Reply(1, "Invalid parameters", <<>>)

version_info == "StackLink Virtual 1.0.0 (mock)"

cmd_version(args) == Reply(0, version_info, <<>>)

\* self.commands, the names LISTCOMMANDS lists
commands == <<
    "AcknowledgeSend trackNumber",
    "AddCoordinates pointName, [constrained], [keyValueInput...]",
    "AddStop trackNumber, portName, positionName, [flags]",
    "CompoundShift trackNumber, direction, [times], [receive], [mask]",
    "DISPENSE trackNumber,liftNumber",
    "RETURN trackNumber,liftNumber",
    "MOVEPLATE trackNumber,sourceStop,destinationStop",
    "SHIFTPLATES trackNumber,direction",
    "SENDPLATE trackNumber,stopNumber",
    "RECEIVEPLATE trackNumber,stopNumber",
    "ACKNOWLEDGESEND trackNumber",
    "IGNORESTOP trackNumber,stopNumber,ignore",
    "IGNORESTOPRANGE trackNumber,startStop,endStop,ignore",
    "IGNOREALLSTOPS trackNumber,ignore",
    "GETSTOPSENSORS trackNumber",
    "HASPLATE trackNumber,stopNumber",
    "GETIGNORESTOP trackNumber,stopNumber",
    "GETIGNORESTOPS trackNumber",
    "LISTCOMMANDS [filter]",
    "VERSION"
>>

\* the characters of the strings that LISTCOMMANDS compares: the filter words
\* the model sends and the entries of self.commands
Spelling ==
    ("" :>
        <<>>)
    @@ ("Plate" :>
        <<"P", "l", "a", "t", "e">>)
    @@ ("track" :>
        <<"t", "r", "a", "c", "k">>)
    @@ ("zzz" :>
        <<"z", "z", "z">>)
    @@ ("AcknowledgeSend trackNumber" :>
        <<"A", "c", "k", "n", "o", "w", "l", "e", "d", "g", "e", "S", "e", "n", "d", " ", "t", "r", "a", "c", "k", "N", "u", "m", "b", "e", "r">>)
    @@ ("AddCoordinates pointName, [constrained], [keyValueInput...]" :>
        <<"A", "d", "d", "C", "o", "o", "r", "d", "i", "n", "a", "t", "e", "s", " ", "p", "o", "i", "n", "t", "N", "a", "m", "e", ",", " ", "[", "c", "o", "n", "s", "t", "r", "a", "i", "n", "e", "d", "]", ",", " ", "[", "k", "e", "y", "V", "a", "l", "u", "e", "I", "n", "p", "u", "t", ".", ".", ".", "]">>)
    @@ ("AddStop trackNumber, portName, positionName, [flags]" :>
        <<"A", "d", "d", "S", "t", "o", "p", " ", "t", "r", "a", "c", "k", "N", "u", "m", "b", "e", "r", ",", " ", "p", "o", "r", "t", "N", "a", "m", "e", ",", " ", "p", "o", "s", "i", "t", "i", "o", "n", "N", "a", "m", "e", ",", " ", "[", "f", "l", "a", "g", "s", "]">>)
    @@ ("CompoundShift trackNumber, direction, [times], [receive], [mask]" :>
        <<"C", "o", "m", "p", "o", "u", "n", "d", "S", "h", "i", "f", "t", " ", "t", "r", "a", "c", "k", "N", "u", "m", "b", "e", "r", ",", " ", "d", "i", "r", "e", "c", "t", "i", "o", "n", ",", " ", "[", "t", "i", "m", "e", "s", "]", ",", " ", "[", "r", "e", "c", "e", "i", "v", "e", "]", ",", " ", "[", "m", "a", "s", "k", "]">>)
    @@ ("DISPENSE trackNumber,liftNumber" :>
        <<"D", "I", "S", "P", "E", "N", "S", "E", " ", "t", "r", "a", "c", "k", "N", "u", "m", "b", "e", "r", ",", "l", "i", "f", "t", "N", "u", "m", "b", "e", "r">>)
    @@ ("RETURN trackNumber,liftNumber" :>
        <<"R", "E", "T", "U", "R", "N", " ", "t", "r", "a", "c", "k", "N", "u", "m", "b", "e", "r", ",", "l", "i", "f", "t", "N", "u", "m", "b", "e", "r">>)
    @@ ("MOVEPLATE trackNumber,sourceStop,destinationStop" :>
        <<"M", "O", "V", "E", "P", "L", "A", "T", "E", " ", "t", "r", "a", "c", "k", "N", "u", "m", "b", "e", "r", ",", "s", "o", "u", "r", "c", "e", "S", "t", "o", "p", ",", "d", "e", "s", "t", "i", "n", "a", "t", "i", "o", "n", "S", "t", "o", "p">>)
    @@ ("SHIFTPLATES trackNumber,direction" :>
        <<"S", "H", "I", "F", "T", "P", "L", "A", "T", "E", "S", " ", "t", "r", "a", "c", "k", "N", "u", "m", "b", "e", "r", ",", "d", "i", "r", "e", "c", "t", "i", "o", "n">>)
    @@ ("SENDPLATE trackNumber,stopNumber" :>
        <<"S", "E", "N", "D", "P", "L", "A", "T", "E", " ", "t", "r", "a", "c", "k", "N", "u", "m", "b", "e", "r", ",", "s", "t", "o", "p", "N", "u", "m", "b", "e", "r">>)
    @@ ("RECEIVEPLATE trackNumber,stopNumber" :>
        <<"R", "E", "C", "E", "I", "V", "E", "P", "L", "A", "T", "E", " ", "t", "r", "a", "c", "k", "N", "u", "m", "b", "e", "r", ",", "s", "t", "o", "p", "N", "u", "m", "b", "e", "r">>)
    @@ ("ACKNOWLEDGESEND trackNumber" :>
        <<"A", "C", "K", "N", "O", "W", "L", "E", "D", "G", "E", "S", "E", "N", "D", " ", "t", "r", "a", "c", "k", "N", "u", "m", "b", "e", "r">>)
    @@ ("IGNORESTOP trackNumber,stopNumber,ignore" :>
        <<"I", "G", "N", "O", "R", "E", "S", "T", "O", "P", " ", "t", "r", "a", "c", "k", "N", "u", "m", "b", "e", "r", ",", "s", "t", "o", "p", "N", "u", "m", "b", "e", "r", ",", "i", "g", "n", "o", "r", "e">>)
    @@ ("IGNORESTOPRANGE trackNumber,startStop,endStop,ignore" :>
        <<"I", "G", "N", "O", "R", "E", "S", "T", "O", "P", "R", "A", "N", "G", "E", " ", "t", "r", "a", "c", "k", "N", "u", "m", "b", "e", "r", ",", "s", "t", "a", "r", "t", "S", "t", "o", "p", ",", "e", "n", "d", "S", "t", "o", "p", ",", "i", "g", "n", "o", "r", "e">>)
    @@ ("IGNOREALLSTOPS trackNumber,ignore" :>
        <<"I", "G", "N", "O", "R", "E", "A", "L", "L", "S", "T", "O", "P", "S", " ", "t", "r", "a", "c", "k", "N", "u", "m", "b", "e", "r", ",", "i", "g", "n", "o", "r", "e">>)
    @@ ("GETSTOPSENSORS trackNumber" :>
        <<"G", "E", "T", "S", "T", "O", "P", "S", "E", "N", "S", "O", "R", "S", " ", "t", "r", "a", "c", "k", "N", "u", "m", "b", "e", "r">>)
    @@ ("HASPLATE trackNumber,stopNumber" :>
        <<"H", "A", "S", "P", "L", "A", "T", "E", " ", "t", "r", "a", "c", "k", "N", "u", "m", "b", "e", "r", ",", "s", "t", "o", "p", "N", "u", "m", "b", "e", "r">>)
    @@ ("GETIGNORESTOP trackNumber,stopNumber" :>
        <<"G", "E", "T", "I", "G", "N", "O", "R", "E", "S", "T", "O", "P", " ", "t", "r", "a", "c", "k", "N", "u", "m", "b", "e", "r", ",", "s", "t", "o", "p", "N", "u", "m", "b", "e", "r">>)
    @@ ("GETIGNORESTOPS trackNumber" :>
        <<"G", "E", "T", "I", "G", "N", "O", "R", "E", "S", "T", "O", "P", "S", " ", "t", "r", "a", "c", "k", "N", "u", "m", "b", "e", "r">>)
    @@ ("LISTCOMMANDS [filter]" :>
        <<"L", "I", "S", "T", "C", "O", "M", "M", "A", "N", "D", "S", " ", "[", "f", "i", "l", "t", "e", "r", "]">>)
    @@ ("VERSION" :>
        <<"V", "E", "R", "S", "I", "O", "N">>)

UpperLetters == <<"A", "B", "C", "D", "E", "F", "G", "H", "I", "J", "K", "L", "M", "N", "O", "P", "Q", "R", "S", "T", "U", "V", "W", "X", "Y", "Z">>
LowerLetters == <<"a", "b", "c", "d", "e", "f", "g", "h", "i", "j", "k", "l", "m", "n", "o", "p", "q", "r", "s", "t", "u", "v", "w", "x", "y", "z">>

\* str.lower(), character by character
LowerChar(ch) ==
    IF \E k \in 1..Len(UpperLetters) : UpperLetters[k] = ch
        THEN LowerLetters[CHOOSE k \in 1..Len(UpperLetters) : UpperLetters[k] = ch]
        ELSE ch

LowerSeq(t) == [k \in 1..Len(t) |-> LowerChar(t[k])]

\* needle in hay, for two strings
Contains(hay, needle) ==
    \E k \in 0..(Len(hay) - Len(needle)) :
        \A j \in 1..Len(needle) : hay[k + j] = needle[j]

\* query.lower() in c.lower()
InLower(query, c) == Contains(LowerSeq(Spelling[c]), LowerSeq(Spelling[query]))

\* [c for c in self.commands if query.lower() in c.lower()], for every
\* filter word
Filtered ==
    [query \in DOMAIN Spelling |->
        SelectSeq(commands, LAMBDA c : InLower(query, c))]

cmd_listcommands(args) ==
    LET query == args[1].w
        filtered == IF Len(args) = 1 /\ ~args[1].isint /\ query = ""
                        THEN commands
                        ELSE Filtered[query]
    IN  Reply(0, "Command list (" \o ToString(Len(filtered)) \o " commands)",
              filtered)

cmd_getstopsensors(args) ==
    IF ~args[1].isint THEN InvalidParameters
    ELSE Reply(0, stops_status_string(stops), <<>>)

cmd_hasplate(args) ==
    IF Len(args) # 2 \/ ~args[2].isint THEN InvalidParameters
    ELSE LET stop == args[2].n IN
         IF stop \notin DOMAIN stops THEN Reply(1, "Stop out of range", <<>>)
         ELSE Reply(0, IF stops[stop].has_plate THEN "Object" ELSE "Empty", <<>>)

cmd_getignorestop(args) ==
    IF Len(args) # 2 \/ ~args[2].isint THEN InvalidParameters
    ELSE LET stop == args[2].n IN
         IF stop \notin DOMAIN stops THEN Reply(1, "Stop out of range", <<>>)
         ELSE Reply(0, IF stops[stop].ignored THEN "True" ELSE "False", <<>>)

cmd_getignorestops(args) ==
    Reply(0, "Ignored stops: " \o ignored_status_string(stops), <<>>)

cmd_ignorestop(args) ==
    IF Len(args) < 3 \/ ~args[1].isint \/ ~args[2].isint THEN InvalidParameters
    ELSE LET stop == args[2].n
             ignore == IsTrue(args[3])
         IN  IF stop \notin DOMAIN stops THEN Reply(1, "Stop out of range", <<>>)
             ELSE Result(0, "Success", <<>>,
                         [stops EXCEPT ![stop].ignored = ignore],
                         stacks, next_plate_id)

\* a faulty variant that leaves the end stop out of the range
cmd_ignorestoprange_open(args) ==
    IF Len(args) < 4 \/ ~args[1].isint \/ ~args[2].isint \/ ~args[3].isint
        THEN InvalidParameters
    ELSE Result(0, "Success", <<>>,
                [i \in DOMAIN stops |->
                    IF i \in args[2].n..(args[3].n - 1)
                        THEN [stops[i] EXCEPT !.ignored = IsTrue(args[4])]
                        ELSE stops[i]],
                stacks, next_plate_id)

cmd_ignorestoprange(args) ==
    IF Len(args) < 4 \/ ~args[1].isint \/ ~args[2].isint \/ ~args[3].isint
        THEN InvalidParameters
    ELSE LET start == args[2].n
             end == args[3].n
             ignore == IsTrue(args[4])
         IN  Result(0, "Success", <<>>,
                    [i \in DOMAIN stops |->
                        IF i \in start..end
                            THEN [stops[i] EXCEPT !.ignored = ignore]
                            ELSE stops[i]],
                    stacks, next_plate_id)

cmd_ignoreallstops(args) ==
    IF Len(args) < 2 \/ ~args[1].isint THEN InvalidParameters
    ELSE LET ignore == IsTrue(args[2]) IN
         Result(0, "Success", <<>>,
                [i \in DOMAIN stops |-> [stops[i] EXCEPT !.ignored = ignore]],
                stacks, next_plate_id)

\* a faulty variant: the plate gets the counter's value after the increment
DispensePlate_late(st, stop_id, npid) ==
    [st EXCEPT ![stop_id].has_plate = TRUE, ![stop_id].plate_id = npid + 1]

\* lines 409-412: the new plate gets the counter's value and sits on the lift
DispensePlate(st, stop_id, npid) ==
    [st EXCEPT ![stop_id].has_plate = TRUE, ![stop_id].plate_id = npid]

\* cmd_dispense as it would be if it looked at the lift's stop before the
\* dispense-failure fault
cmd_dispense_stopfirst(args) ==
    IF Len(args) # 2 \/ ~args[2].isint THEN InvalidParameters
    ELSE LET lift == args[2].n IN
         IF lift \notin DOMAIN lift_map THEN Reply(1, "Unknown lift", <<>>)
         ELSE LET stop_id == lift_map[lift]
                  stop == stops[stop_id]
              IN  IF error_flags["lift_blocked"]
                      THEN Reply(2001, "Cannot dispense; lift is blocked", <<>>)
                  ELSE IF stop.has_plate
                      THEN Reply(2001, "Cannot dispense; lift is blocked", <<>>)
                  ELSE IF error_flags["dispense_failure"]
                      THEN Reply(2000, "No object was dispensed", <<>>)
                  ELSE IF lift \notin DOMAIN stacks
                      THEN Reply(2000, "No object was dispensed", <<>>)
                  ELSE LET d == Stack_dispense(stacks[lift]) IN
                       IF ~d.ok THEN Reply(2000, "No object was dispensed", <<>>)
                       ELSE Result(0, "Success", <<>>,
                                   DispensePlate(stops, stop_id, next_plate_id),
                                   [stacks EXCEPT ![lift] = d.stack],
                                   next_plate_id + 1)

cmd_dispense(args) ==
    IF Len(args) # 2 \/ ~args[2].isint THEN InvalidParameters
    ELSE LET lift == args[2].n IN
         IF lift \notin DOMAIN lift_map THEN Reply(1, "Unknown lift", <<>>)
         ELSE LET stop_id == lift_map[lift]
                  stop == stops[stop_id]
              IN  IF error_flags["lift_blocked"]
                      THEN Reply(2001, "Cannot dispense; lift is blocked", <<>>)
                  ELSE IF error_flags["dispense_failure"]
                      THEN Reply(2000, "No object was dispensed", <<>>)
                  ELSE IF stop.has_plate
                      THEN Reply(2001, "Cannot dispense; lift is blocked", <<>>)
                  ELSE IF lift \notin DOMAIN stacks
                      THEN Reply(2000, "No object was dispensed", <<>>)
                  ELSE LET d == Stack_dispense(stacks[lift]) IN
                       IF ~d.ok THEN Reply(2000, "No object was dispensed", <<>>)
                       ELSE Result(0, "Success", <<>>,
                                   DispensePlate(stops, stop_id, next_plate_id),
                                   [stacks EXCEPT ![lift] = d.stack],
                                   next_plate_id + 1)

\* a faulty variant that asks the stack without looking at the lift's stop
cmd_return_blind(args) ==
    IF Len(args) # 2 \/ ~args[2].isint THEN InvalidParameters
    ELSE LET lift == args[2].n IN
         IF lift \notin DOMAIN lift_map \/ lift \notin DOMAIN stacks
             THEN Reply(1, "Unknown lift", <<>>)
         ELSE LET r == Stack_return_plate(stacks[lift]) IN
              Result(IF r.ok THEN 0 ELSE 2003,
                     IF r.ok THEN "Success" ELSE "Stack full", <<>>,
                     [stops EXCEPT ![lift_map[lift]].has_plate = FALSE,
                                   ![lift_map[lift]].plate_id = None],
                     [stacks EXCEPT ![lift] = r.stack], next_plate_id)

cmd_return(args) ==
    IF Len(args) # 2 \/ ~args[2].isint THEN InvalidParameters
    ELSE LET lift == args[2].n IN
         IF lift \notin DOMAIN lift_map THEN Reply(1, "Unknown lift", <<>>)
         ELSE LET stop_id == lift_map[lift]
                  stop == stops[stop_id]
                  cleared == [stops EXCEPT ![stop_id].has_plate = FALSE,
                                           ![stop_id].plate_id = None]
              IN  IF error_flags["lift_blocked"]
                      THEN Reply(2001, "Cannot dispense; lift is blocked", <<>>)
                  ELSE IF error_flags["stack_full"]
                      THEN Reply(2003, "Stack full", <<>>)
                  ELSE IF ~stop.has_plate
                      THEN Reply(2002, "No plate at lift", <<>>)
                  \* the stop is cleared before the stack is asked
                  ELSE IF lift \notin DOMAIN stacks
                      THEN Raised(cleared, stacks, next_plate_id)
                  ELSE LET r == Stack_return_plate(stacks[lift]) IN
                       IF ~r.ok
                           THEN Result(2003, "Stack full", <<>>,
                                       cleared, stacks, next_plate_id)
                           ELSE Result(0, "Success", <<>>, cleared,
                                       [stacks EXCEPT ![lift] = r.stack],
                                       next_plate_id)

\* Faulty variants: a scan that leaves the destination out, and a move that
\* drops the plate id.
MovePath_open(source, dest) ==
    IF dest > source THEN (source + 1)..(dest - 1) ELSE (dest + 1)..(source - 1)

MovePlateStops_anonymous(st, source, dest) ==
    LET s1 == [st EXCEPT ![source].has_plate = FALSE, ![source].plate_id = None]
    IN  [s1 EXCEPT ![dest].has_plate = TRUE, ![dest].plate_id = None]

\* the move as it would be if the destination were written before the source
\* is cleared
MovePlateStops_destfirst(st, source, dest) ==
    LET plate_id == st[source].plate_id
        s1 == [st EXCEPT ![dest].has_plate = TRUE, ![dest].plate_id = plate_id]
    IN  [s1 EXCEPT ![source].has_plate = FALSE, ![source].plate_id = None]

\* the stops cmd_moveplate scans before it moves the plate
MovePath(source, dest) ==
    IF dest > source THEN (source + 1)..dest ELSE dest..(source - 1)

\* lines 466-472: the plate and its id leave source and arrive at dest
MovePlateStops(st, source, dest) ==
    LET plate_id == st[source].plate_id
        s1 == [st EXCEPT ![source].has_plate = FALSE, ![source].plate_id = None]
    IN  [s1 EXCEPT ![dest].has_plate = TRUE, ![dest].plate_id = plate_id]

\* the scan as it would be if a plate on an ignored stop did not count
PathBlocked_ignoring(source, dest) ==
    \E i \in MovePath(source, dest) :
        /\ i # source /\ i \in DOMAIN stops
        /\ stops[i].has_plate /\ ~stops[i].ignored

PathBlocked(source, dest) ==
    \E i \in MovePath(source, dest) :
        i # source /\ i \in DOMAIN stops /\ stops[i].has_plate

cmd_moveplate(args) ==
    IF Len(args) # 3 \/ \E k \in 1..3 : ~args[k].isint THEN InvalidParameters
    ELSE LET source == args[2].n
             dest == args[3].n
         IN  IF source \notin DOMAIN stops \/ dest \notin DOMAIN stops
                 THEN Reply(1, "Stop out of range", <<>>)
             ELSE IF error_flags["movement_blocked"]
                 THEN Reply(57, "Movement blocked", <<>>)
             ELSE IF ~stops[source].has_plate
                 THEN Reply(2004, "No plate at source", <<>>)
             ELSE IF PathBlocked(source, dest)
                 THEN Reply(57, "Movement blocked", <<>>)
             ELSE LET s2 == MovePlateStops(stops, source, dest) IN
                  Result(0, stops_status_string(s2), <<>>,
                         s2, stacks, next_plate_id)

\* One pass of the SHIFTPLATES loop from stop i on: step is +1 (forward, the
\* stops visited in descending order) or -1 (reverse, ascending order). Only
\* has_plate is written.
\* a faulty variant that decides every move from the occupancy before the
\* call, so that a plate behind another one is blocked by it
ShiftLoop_snapshot(st, i, step, moved) ==
    LET mv(k) == /\ st[k].has_plate
                 /\ k + step \in DOMAIN st
                 /\ ~st[k + step].has_plate
    IN  [stops |-> [k \in DOMAIN st |->
                      [st[k] EXCEPT !.has_plate =
                          \/ st[k].has_plate /\ ~mv(k)
                          \/ k - step \in DOMAIN st /\ mv(k - step)]],
         moved |-> moved \/ \E k \in DOMAIN st : mv(k)]

RECURSIVE ShiftLoop(_, _, _, _)
ShiftLoop(st, i, step, moved) ==
    IF i \notin DOMAIN st THEN [stops |-> st, moved |-> moved]
    ELSE LET next_idx == i + step IN
         IF st[i].has_plate /\ next_idx \in DOMAIN st /\ ~st[next_idx].has_plate
             THEN ShiftLoop([st EXCEPT ![i].has_plate = FALSE,
                                       ![next_idx].has_plate = TRUE],
                            i - step, step, TRUE)
             ELSE ShiftLoop(st, i - step, step, moved)

Directions == {"forward", "fwd", "f", "reverse", "rev", "r"}

\* a faulty variant that looks at the movement_blocked flag before it moves
cmd_shiftplates_flagfirst(args) ==
    IF Len(args) # 2 THEN InvalidParameters
    ELSE IF args[2].isint \/ Lower(args[2].w) \notin Directions
        THEN Reply(1, "Invalid direction", <<>>)
    ELSE IF error_flags["movement_blocked"]
        THEN Reply(57, "Movement blocked", <<>>)
    ELSE LET sh == IF Lower(args[2].w) \in {"forward", "fwd", "f"}
                       THEN ShiftLoop(stops, NumStops, 1, FALSE)
                       ELSE ShiftLoop(stops, 1, -1, FALSE)
         IN  IF ~sh.moved
                 THEN Result(2005, "No plates moved", <<>>,
                             sh.stops, stacks, next_plate_id)
                 ELSE Result(0, stops_status_string(sh.stops), <<>>,
                             sh.stops, stacks, next_plate_id)

cmd_shiftplates(args) ==
    IF Len(args) # 2 THEN InvalidParameters
    ELSE LET direction == Lower(args[2].w) IN
         IF args[2].isint \/ direction \notin Directions
             THEN Reply(1, "Invalid direction", <<>>)
         ELSE LET forward == direction \in {"forward", "fwd", "f"}
                  sh == IF forward THEN ShiftLoop(stops, NumStops, 1, FALSE)
                                   ELSE ShiftLoop(stops, 1, -1, FALSE)
              IN  IF error_flags["movement_blocked"]
                      THEN Result(57, "Movement blocked", <<>>,
                                  sh.stops, stacks, next_plate_id)
                  ELSE IF ~sh.moved
                      THEN Result(2005, "No plates moved", <<>>,
                                  sh.stops, stacks, next_plate_id)
                  ELSE Result(0, stops_status_string(sh.stops), <<>>,
                              sh.stops, stacks, next_plate_id)

cmd_sendplate(args) ==
    IF Len(args) # 2 \/ ~args[2].isint THEN InvalidParameters
    ELSE LET stop == args[2].n IN
         IF stop \notin DOMAIN stops THEN Reply(1, "Stop out of range", <<>>)
         ELSE IF ~stops[stop].has_plate THEN Reply(2004, "No plate at source", <<>>)
         ELSE Result(0, "Success", <<>>,
                     [stops EXCEPT ![stop].has_plate = FALSE,
                                   ![stop].plate_id = None],
                     stacks, next_plate_id)

\* a faulty variant that looks at the lift_blocked flag before the stop index
cmd_receiveplate_flagfirst(args) ==
    IF Len(args) # 2 \/ ~args[2].isint THEN InvalidParameters
    ELSE LET stop == args[2].n IN
         IF error_flags["lift_blocked"]
             THEN Reply(2001, "Cannot dispense; lift is blocked", <<>>)
         ELSE IF stop \notin DOMAIN stops THEN Reply(1, "Stop out of range", <<>>)
         ELSE IF stops[stop].has_plate
             THEN Reply(2001, "Cannot dispense; lift is blocked", <<>>)
         ELSE Result(0, "Success", <<>>,
                     [stops EXCEPT ![stop].has_plate = TRUE,
                                   ![stop].plate_id = None],
                     stacks, next_plate_id)

cmd_receiveplate(args) ==
    IF Len(args) # 2 \/ ~args[2].isint THEN InvalidParameters
    ELSE LET stop == args[2].n IN
         IF stop \notin DOMAIN stops THEN Reply(1, "Stop out of range", <<>>)
         ELSE IF error_flags["lift_blocked"]
             THEN Reply(2001, "Cannot dispense; lift is blocked", <<>>)
         ELSE IF stops[stop].has_plate
             THEN Reply(2001, "Cannot dispense; lift is blocked", <<>>)
         ELSE Result(0, "Success", <<>>,
                     [stops EXCEPT ![stop].has_plate = TRUE,
                                   ![stop].plate_id = None],
                     stacks, next_plate_id)

cmd_acknowledgesend(args) == Reply(0, "Success", <<>>)

cmd_getnumtracks(args) == Reply(0, "1", <<>>)

\* ------------------------------------------------------------- dispatch
\* stacklink_commands.COMMAND_LIST
COMMAND_LIST == <<
    "ClearCounter", "ClearCounters", "DumpInputState", "DumpOutputState",
    "DumpStops", "GetFileData", "GetFileList", "GetFileSize",
    "GetLoopCounter", "GetStackSensors", "GetStopControlStates",
    "GetStopOutputStates", "GetStopSensors", "IncrementCounter",
    "ListCounters", "ListLabLinxException", "ListMetrics", "ListRawMetrics",
    "MovePlateTest", "TestLift", "TestStops", "GetClockTime",
    "GetClockTimezone", "GetCpuInfo", "GetDiskInfo", "GetFirmwareUptime",
    "GetMemoryUsage", "GetOsInfo", "GetSystemUptime", "GetUptime",
    "ListClockTimezones", "ListComPorts", "SendTo", "SetClockTime",
    "SetClockTimezone", "Shutdown", "Terminal", "GetLogLevel", "GetLogPath",
    "ListBootLog", "ListLog", "ListLogSources", "LogCommands", "SetLogLevel",
    "ListIOs", "ReadAnalog", "ReadInp", "ReadInput", "WriteAnalog",
    "WriteOut", "WriteOutput", "CalculateMoveSpeed", "CalculateMoveTime",
    "EStop", "GetAutoHome", "GetPos", "GetPosition", "GetSpeed", "Halt",
    "Home", "Jog", "Move", "Move_Abs", "MoveAxes", "MoveAxis", "MoveFast",
    "SetAutoHome", "SetSpeed", "ShiftedMove", "Status", "Dispense", "Return",
    "Can", "DeleteSettingsFile", "GetSerialNumber", "GetSettings",
    "ListCommands", "ListParameters", "ListParams", "ListSettings",
    "Version", "AcknowledgeSend", "CompoundShift", "ConveyorOff",
    "ConveyorOn", "GetIgnoreStop", "GetIgnoreStops", "HasPlate",
    "IgnoreAllStops", "IgnoreStop", "IgnoreStopRange", "MovePlate",
    "ReceivePlate", "SendPlate", "ShiftPlates", "ClearMotionOverrides",
    "DeleteMotionProfile", "GetAxes", "GetAxisProfile", "GetDefaultMotion",
    "GetEStopAxes", "GetHomeMotion", "GetLimits", "GetMotionProfile",
    "GetPrimaryAxes", "GetSecondaryAxes", "GetStepsPerUnit",
    "GetSynchronizeMotion", "ListAxisProfiles", "ListDefaultMotions",
    "ListHomeMotions", "ListMotionProfiles", "SetAxisProfile",
    "SetDefaultMotion", "SetEStopAxes", "SetHomeMotion", "SetLimits",
    "SetMotionProfile", "SetSynchronizeMotion", "GetCurrentIP",
    "GetDefaultGateway", "GetDNS", "GetHostName", "GetIP", "GetIPAddress",
    "GetSubnetMask", "GetUseDHCP", "ListNetworkSettings",
    "SetDefaultGateway", "SetDNS", "SetHostName", "SetIP", "SetIPAddress",
    "SetSubnetMask", "SetUseDHCP", "AddCoordinates", "ClearPoints",
    "ConstrainPoint", "DeletePoint", "GetPoint", "Here", "ListPoints",
    "LoadPoint", "RemoveCoordinates", "Set", "SetShifted", "Shift",
    "AddStop", "GetStopFlags", "GetStopName", "GetStopPort", "InsertStop",
    "ListStops", "MoveStop", "RemoveAllStops", "RemoveStop", "RenameStop",
    "SetStopFlags", "SetStopName", "SetStopPort", "SwapStops", "GetAutoStop",
    "GetAutoStopTime", "GetHighSpeedDistance", "GetMoveTime", "GetNumTracks",
    "GetPartners", "GetShiftTimeout", "GetTrackSettings",
    "ListTrackSettings", "SendToPartner", "SetAutoStop", "SetAutoStopTime",
    "SetHighSpeedDistance", "SetMoveTime", "SetPartners", "SetShiftTimeout",
    "SetTrackSettings"
>>

\* the cmd_* methods of StackLinkState, by the lower-cased command name
HandlerNames ==
    {"version", "listcommands", "getstopsensors", "hasplate", "getignorestop",
     "getignorestops", "ignorestop", "ignorestoprange", "ignoreallstops",
     "dispense", "return", "moveplate", "shiftplates", "sendplate",
     "receiveplate", "acknowledgesend", "getnumtracks"}

\* str.upper() and str.lower() on the command names the model sends
NameCase ==
    {<<"VERSION", "version">>, <<"LISTCOMMANDS", "listcommands">>,
     <<"GETSTOPSENSORS", "getstopsensors">>,
     <<"HASPLATE", "hasplate">>, <<"GETIGNORESTOP", "getignorestop">>,
     <<"GETIGNORESTOPS", "getignorestops">>, <<"IGNORESTOP", "ignorestop">>,
     <<"IGNORESTOPRANGE", "ignorestoprange">>,
     <<"IGNOREALLSTOPS", "ignoreallstops">>, <<"DISPENSE", "dispense">>,
     <<"RETURN", "return">>, <<"MOVEPLATE", "moveplate">>,
     <<"SHIFTPLATES", "shiftplates">>, <<"SENDPLATE", "sendplate">>,
     <<"RECEIVEPLATE", "receiveplate">>,
     <<"ACKNOWLEDGESEND", "acknowledgesend">>,
     <<"GETNUMTRACKS", "getnumtracks">>, <<"FOOBAR", "foobar">>}

\* the catalog names the model sends, as upper case, lower case and as
\* COMMAND_LIST spells them
CatalogCase ==
    {<<"CLEARCOUNTER", "clearcounter", "ClearCounter">>,
     <<"LISTSTOPS", "liststops", "ListStops">>}

NameForms ==
    {<<p[1], p[2], p[1]>> : p \in NameCase} \cup CatalogCase

KnownNames == UNION {{p[1], p[2], p[3]} : p \in NameForms}

FormsOf ==
    [n \in KnownNames |-> CHOOSE p \in NameForms : n \in {p[1], p[2], p[3]}]

NameUpper(name) == IF name \in KnownNames THEN FormsOf[name][1] ELSE name

NameLower(name) == IF name \in KnownNames THEN FormsOf[name][2] ELSE name

\* getattr(self, "cmd_" + name.lower()) applied to the argument fields
Handler(lname, args) ==
    CASE lname = "version" -> cmd_version(args)
      [] lname = "listcommands" -> cmd_listcommands(args)
      [] lname = "getstopsensors" -> cmd_getstopsensors(args)
      [] lname = "hasplate" -> cmd_hasplate(args)
      [] lname = "getignorestop" -> cmd_getignorestop(args)
      [] lname = "getignorestops" -> cmd_getignorestops(args)
      [] lname = "ignorestop" -> cmd_ignorestop(args)
      [] lname = "ignorestoprange" -> cmd_ignorestoprange(args)
      [] lname = "ignoreallstops" -> cmd_ignoreallstops(args)
      [] lname = "dispense" -> cmd_dispense(args)
      [] lname = "return" -> cmd_return(args)
      [] lname = "moveplate" -> cmd_moveplate(args)
      [] lname = "shiftplates" -> cmd_shiftplates(args)
      [] lname = "sendplate" -> cmd_sendplate(args)
      [] lname = "receiveplate" -> cmd_receiveplate(args)
      [] lname = "acknowledgesend" -> cmd_acknowledgesend(args)
      [] lname = "getnumtracks" -> cmd_getnumtracks(args)

\* a faulty variant in which a name with no handler raises
handle_command_strict(name, args) ==
    IF name = "" THEN Reply(1, "Empty command", <<>>)
    ELSE IF NameLower(name) \in HandlerNames
        THEN Handler(NameLower(name), args)
    ELSE Raised(stops, stacks, next_plate_id)

\* StackLinkState.handle_command on a line with command name `name` and
\* argument fields `args`
handle_command(name, args) ==
    IF name = "" THEN Reply(1, "Empty command", <<>>)
    ELSE IF NameLower(name) \in HandlerNames
        THEN LET r == Handler(NameLower(name), args) IN
             IF r.exc THEN Raised(r.stops, r.stacks, r.next_plate_id) ELSE r
    ELSE IF \E k \in 1..Len(COMMAND_LIST) : COMMAND_LIST[k] = NameUpper(name)
        \* the registry's handlers take (state, args): the call with one
        \* argument raises
        THEN Raised(stops, stacks, next_plate_id)
    ELSE Reply(1, "Unrecognized command", <<>>)

\* ------------------------------------------------------- dashboard writes
\* StackLinkState.set_error_flag: the flag table after the call
set_error_flag(name, value) ==
    IF name \in DOMAIN error_flags
        THEN [error_flags EXCEPT ![name] = value]
        ELSE error_flags

\* StackLinkState.get_error_flags: a copy of the table
get_error_flags == [k \in DOMAIN error_flags |-> error_flags[k]]

\* set_plate_presence as it would be if taking a plate away also forgot its id
set_plate_presence_forgetting(stop, present) ==
    IF stop \notin DOMAIN stops THEN [ret |-> FALSE, stops |-> stops]
    ELSE [ret |-> TRUE,
          stops |-> [stops EXCEPT ![stop].has_plate = present,
                                  ![stop].plate_id =
                                      IF present THEN @ ELSE None]]

\* StackLinkState.set_plate_presence: the return value and the stops after
set_plate_presence(stop, present) ==
    IF stop \notin DOMAIN stops THEN [ret |-> FALSE, stops |-> stops]
    ELSE [ret |-> TRUE, stops |-> [stops EXCEPT ![stop].has_plate = present]]

\* reset_state as it would be if it left the ignore marks of the stops
reset_state_keepignored(stack_counts) ==
    [stops |-> [i \in DOMAIN stops |->
                   [has_plate |-> FALSE, ignored |-> stops[i].ignored,
                    plate_id |-> None]],
     stacks |-> [idx \in DOMAIN stacks |->
                   LET count == IF idx \in DOMAIN stack_counts
                                    THEN stack_counts[idx]
                                    ELSE default_stack_counts[idx]
                   IN  [stacks[idx] EXCEPT
                           !.count = Clamp(count, stacks[idx].capacity)]],
     error_flags |-> [key \in DOMAIN error_flags |-> FALSE],
     next_plate_id |-> 1]

\* StackLinkState.reset_state: stack_counts is a mapping index -> count
\* (the empty mapping when none is given)
reset_state(stack_counts) ==
    [stops |-> [i \in DOMAIN stops |->
                   [has_plate |-> FALSE, ignored |-> FALSE, plate_id |-> None]],
     stacks |-> [idx \in DOMAIN stacks |->
                   LET count == IF idx \in DOMAIN stack_counts
                                    THEN stack_counts[idx]
                                    ELSE default_stack_counts[idx]
                   IN  [stacks[idx] EXCEPT
                           !.count = Clamp(count, stacks[idx].capacity)]],
     error_flags |-> [key \in DOMAIN error_flags |-> FALSE],
     next_plate_id |-> 1]

\* set_stack_count as it would be without the upper clamp
set_stack_count_unclamped(index, count) ==
    IF index \notin DOMAIN stacks THEN [ret |-> FALSE, stacks |-> stacks]
    ELSE [ret |-> TRUE,
          stacks |-> [stacks EXCEPT
                        ![index].count = IF count < 0 THEN 0 ELSE count]]

\* StackLinkState.set_stack_count: the return value and the stacks after
set_stack_count(index, count) ==
    IF index \notin DOMAIN stacks THEN [ret |-> FALSE, stacks |-> stacks]
    ELSE [ret |-> TRUE,
          stacks |-> [stacks EXCEPT
                        ![index].count = Clamp(count, stacks[index].capacity)]]

\* ------------------------------------------------------------ environment
\* what the commands and the dashboard are given
Track == IntF(1)
StopFields == {IntF(s) : s \in 0..(NumStops + 1)}
LiftFields == {IntF(l) : l \in 1..(NumStacks + 1)}
BoolFields == {WordF("true"), WordF("false")}
CountInputs == -1..(Capacity + 1)
FlagInputs == FlagNames \cup {"lift_blocked_1"}

\* argument lists a client gets wrong: a field too few, a field too many, a
\* word where a number belongs (the track field included)
Malformed2 ==
    {<<Track>>, <<Track, IntF(1), IntF(1)>>, <<WordF("x"), IntF(1)>>,
     <<Track, WordF("x")>>, <<WordF("")>>}
Malformed3 ==
    {<<Track, IntF(1)>>, <<Track, IntF(1), IntF(2), IntF(1)>>,
     <<WordF("x"), IntF(1), IntF(2)>>, <<Track, WordF("x"), IntF(1)>>,
     <<Track, IntF(1), WordF("x")>>}

NoArgs == <<WordF("")>>

PlatesOn(st) == Cardinality({i \in DOMAIN st : st[i].has_plate})
IgnoredOn(st) == Cardinality({i \in DOMAIN st : st[i].ignored})
FaultsIn(fl) == Cardinality({k \in DOMAIN fl : fl[k]})

\* the part of the state space the model explores
Within(st, fl, npid) ==
    /\ PlatesOn(st) <= MaxPlates
    /\ (npid - 1) + FaultsIn(fl) + IgnoredOn(st) <= MaxLoad

\* Device State as one value
Device == [stops |-> stops, stacks |-> stacks, error_flags |-> error_flags,
           next_plate_id |-> next_plate_id]

\* One entry of the exchange: the operation, its arguments, the answer and
\* the Device State it started from.
Answer(op, args, code, msg, extra, ret) ==
    [op |-> op, args |-> args, code |-> code, msg |-> msg, extra |-> extra,
     ret |-> ret, pre |-> Device]

\* locals of a handler that is not running
NoFrame == [op |-> "", lift |-> 0, stop_id |-> 0, source |-> 0, dest |-> 0,
            plate_id |-> None]

\* the batch client (client_demo_all_rigs.py) at the start of a batch: it is
\* in the filling loop at the first camera stop, about to send DISPENSE, and
\* has filled no stop
ClientStart ==
    [phase |-> "fill", i |-> 1, step |-> 1, filled |-> <<>>, j |-> 0]

\* handle_client at its start: the connection is accepted, buffer = "" and
\* nothing was received or answered. wire holds what the client wrote and the
\* server has not received yet, sent all the client ever wrote; done are the
\* lines handled and out the answers written to the socket.
\* script is where the batch client is in its program.
Accepted ==
    [state |-> "recv", wire |-> <<>>, sent |-> <<>>, sends |-> 0,
     buffer |-> <<>>, done |-> <<>>, out |-> <<>>, script |-> ClientStart]

InitConns == conn = [c \in Conns |-> Accepted]

\* no connection is in a handler and no move is in progress
InitThreads ==
    /\ pc = [c \in Conns |-> "idle"]
    /\ frame = [c \in Conns |-> NoFrame]
    /\ active_moves = {}

Init ==
    /\ stops = [i \in StopIds |-> TrackStop(i)]
    /\ stacks = [i \in StackIds |-> Stack(i, Capacity, default_stack_counts[i])]
    /\ error_flags = [k \in FlagNames |-> FALSE]
    /\ next_plate_id = 1
    /\ last = <<>>
    /\ InitThreads
    /\ InitConns

Idle == last = <<>>

\* handle_command as it would be if a command that reports a fault also
\* cleared the fault table
Execute_clearing(name, args) ==
    /\ \E r \in {handle_command(name, args)} :
        /\ Within(r.stops, error_flags, r.next_plate_id)
        /\ stops' = r.stops
        /\ stacks' = r.stacks
        /\ next_plate_id' = r.next_plate_id
        /\ error_flags' = IF r.code = 0 THEN error_flags
                          ELSE [k \in DOMAIN error_flags |-> FALSE]
        /\ last' = Append(last, Answer(NameUpper(name), args, r.code, r.msg, r.extra, ""))
    /\ UNCHANGED threadVars

\* One command line, handled from start to end: handle_command, the Device
\* State it leaves and the answer sent back.
Execute(name, args) ==
    /\ \E r \in {handle_command(name, args)} :
        /\ Within(r.stops, error_flags, r.next_plate_id)
        /\ stops' = r.stops
        /\ stacks' = r.stacks
        /\ next_plate_id' = r.next_plate_id
        /\ last' = Append(last, Answer(NameUpper(name), args, r.code, r.msg, r.extra, ""))
    /\ UNCHANGED <<error_flags, threadVars>>

VERSION == Idle /\ Execute("VERSION", NoArgs)

LISTCOMMANDS ==
    /\ Idle
    /\ \E q \in {"", "Plate", "track", "zzz"} :
        Execute("LISTCOMMANDS", <<WordF(q)>>)

GETSTOPSENSORS ==
    /\ Idle
    /\ \E args \in {<<Track>>, <<WordF("x")>>, <<Track, IntF(1)>>, NoArgs} :
        Execute("GETSTOPSENSORS", args)

HASPLATE ==
    /\ Idle
    /\ \E args \in {<<Track, s>> : s \in StopFields} \cup Malformed2 :
        Execute("HASPLATE", args)

GETIGNORESTOP ==
    /\ Idle
    /\ \E args \in {<<Track, s>> : s \in StopFields} \cup Malformed2 :
        Execute("GETIGNORESTOP", args)

GETIGNORESTOPS ==
    /\ Idle
    /\ \E args \in {<<Track>>, <<WordF("x")>>, <<Track, IntF(1)>>, NoArgs} :
        Execute("GETIGNORESTOPS", args)

IGNORESTOP ==
    /\ Idle
    /\ \E args \in {<<Track, s, b>> : s \in StopFields, b \in BoolFields}
                \cup Malformed3 :
        Execute("IGNORESTOP", args)

IGNORESTOPRANGE ==
    /\ Idle
    /\ \E args \in {<<Track, IntF(a), IntF(a + 1), b>> :
                    a \in 0..NumStops, b \in BoolFields}
                \cup {<<Track, IntF(2), IntF(1), WordF("true")>>,
                      <<Track, IntF(1), IntF(2)>>,
                      <<Track, WordF("x"), IntF(2), WordF("true")>>} :
        Execute("IGNORESTOPRANGE", args)

IGNOREALLSTOPS ==
    /\ Idle
    /\ \E args \in {<<Track, b>> : b \in BoolFields}
                \cup {<<Track>>, <<WordF("x"), WordF("true")>>} :
        Execute("IGNOREALLSTOPS", args)

DISPENSE ==
    /\ Idle
    /\ \E args \in {<<Track, l>> : l \in LiftFields} \cup Malformed2 :
        Execute("DISPENSE", args)

RETURN ==
    /\ Idle
    /\ \E args \in {<<Track, l>> : l \in LiftFields} \cup Malformed2 :
        Execute("RETURN", args)

MOVEPLATE ==
    /\ Idle
    /\ \E args \in {<<Track, a, b>> : a \in StopFields, b \in StopFields}
                \cup Malformed3 :
        Execute("MOVEPLATE", args)

SHIFTPLATES ==
    /\ Idle
    /\ \E args \in {<<Track, WordF(d)>> : d \in {"f", "reverse", "F", "up"}}
                \cup Malformed2 :
        Execute("SHIFTPLATES", args)

SENDPLATE ==
    /\ Idle
    /\ \E args \in {<<Track, s>> : s \in StopFields} \cup Malformed2 :
        Execute("SENDPLATE", args)

RECEIVEPLATE ==
    /\ Idle
    /\ \E args \in {<<Track, s>> : s \in StopFields} \cup Malformed2 :
        Execute("RECEIVEPLATE", args)

ACKNOWLEDGESEND == Idle /\ \E args \in {<<Track>>, NoArgs} : Execute("ACKNOWLEDGESEND", args)

GETNUMTRACKS == Idle /\ Execute("GETNUMTRACKS", NoArgs)

\* a name with no cmd_ method
UNRECOGNIZED == Idle /\ Execute("FOOBAR", NoArgs)

\* a name of COMMAND_LIST with no cmd_ method, in three letter cases
CATALOGUED ==
    /\ Idle
    /\ \E name \in {"ClearCounter", "CLEARCOUNTER", "clearcounter"} :
        Execute(name, NoArgs)

\* LISTSTOPS, which stacklink_commands implements and StackLinkState does
\* not, for track 1 and for another track
LISTSTOPS ==
    /\ Idle
    /\ \E name \in {"LISTSTOPS", "ListStops"}, track \in {1, 2} :
        Execute(name, <<IntF(track)>>)

\* a line of blanks: raw.strip() is empty
EMPTYCOMMAND == Idle /\ Execute("", NoArgs)

SetErrorFlag ==
    /\ Idle
    /\ \E name \in FlagInputs, value \in BOOLEAN :
        \E fl \in {set_error_flag(name, value)} :
            /\ Within(stops, fl, next_plate_id)
            /\ error_flags' = fl
            /\ last' = <<Answer("set_error_flag", <<name, value>>, 0, "", <<>>, "None")>>
    /\ UNCHANGED <<stops, stacks, next_plate_id, threadVars>>

SetPlatePresence ==
    /\ Idle
    /\ \E stop \in 0..(NumStops + 1), present \in BOOLEAN :
        \E r \in {set_plate_presence(stop, present)} :
            /\ Within(r.stops, error_flags, next_plate_id)
            /\ stops' = r.stops
            /\ last' = <<Answer("set_plate_presence", <<stop, present>>, 0, "", <<>>,
                                IF r.ret THEN "True" ELSE "False")>>
    /\ UNCHANGED <<stacks, error_flags, next_plate_id, threadVars>>

\* the override mappings the dashboard sends with a reset: none, one stack,
\* all stacks and a stack that does not exist
ResetInputs ==
    {<<>>}
    \cup {(i :> c) : i \in 1..(NumStacks + 1), c \in CountInputs}
    \cup {[i \in StackIds |-> c] : c \in CountInputs}

ResetState ==
    /\ Idle
    /\ \E stack_counts \in ResetInputs :
        \E r \in {reset_state(stack_counts)} :
            /\ stops' = r.stops
            /\ stacks' = r.stacks
            /\ error_flags' = r.error_flags
            /\ next_plate_id' = r.next_plate_id
            /\ last' = <<Answer("reset_state", stack_counts, 0, "", <<>>, "None")>>
    /\ UNCHANGED threadVars

SetStackCount ==
    /\ Idle
    /\ \E index \in 0..NumStacks, count \in CountInputs :
        \E r \in {set_stack_count(index, count)} :
            /\ stacks' = r.stacks
            /\ last' = <<Answer("set_stack_count", <<index, count>>, 0, "", <<>>,
                                IF r.ret THEN "True" ELSE "False")>>
    /\ UNCHANGED <<stops, error_flags, next_plate_id, threadVars>>

\* A client that sends two lines at once has the second handled right after
\* the first. The model does so for a DISPENSE, followed by the RETURN on the
\* same lift, and for a MOVEPLATE, followed by the MOVEPLATE back; the
\* exchange then holds both answers.
RETURN_AFTER_DISPENSE ==
    /\ Len(last) = 1
    /\ last[1].op = "DISPENSE"
    /\ Len(last[1].args) = 2
    /\ Execute("RETURN", last[1].args)

MOVEPLATE_BACK ==
    /\ Len(last) = 1
    /\ last[1].op = "MOVEPLATE"
    /\ Len(last[1].args) = 3
    /\ Execute("MOVEPLATE", <<last[1].args[1], last[1].args[3], last[1].args[2]>>)

\* handle_client goes on with the next line of the buffer after a line that
\* was not recognized or whose handler raised: here GETSTOPSENSORS
GETSTOPSENSORS_NEXT ==
    /\ Len(last) = 1
    /\ last[1].msg \in {"Unrecognized command", "Internal error"}
    /\ Execute("GETSTOPSENSORS", <<Track>>)

\* the exchange is over: the answer was sent and read
Done ==
    /\ last # <<>>
    /\ last' = <<>>
    /\ UNCHANGED <<stops, stacks, error_flags, next_plate_id, threadVars>>

Next ==
    \/ VERSION
    \/ LISTCOMMANDS
    \/ GETSTOPSENSORS
    \/ HASPLATE
    \/ GETIGNORESTOP
    \/ GETIGNORESTOPS
    \/ IGNORESTOP
    \/ IGNORESTOPRANGE
    \/ IGNOREALLSTOPS
    \/ DISPENSE
    \/ RETURN
    \/ MOVEPLATE
    \/ SHIFTPLATES
    \/ SENDPLATE
    \/ RECEIVEPLATE
    \/ ACKNOWLEDGESEND
    \/ GETNUMTRACKS
    \/ UNRECOGNIZED
    \/ CATALOGUED
    \/ LISTSTOPS
    \/ EMPTYCOMMAND
    \/ SetErrorFlag
    \/ SetPlatePresence
    \/ ResetState
    \/ SetStackCount
    \/ RETURN_AFTER_DISPENSE
    \/ MOVEPLATE_BACK
    \/ GETSTOPSENSORS_NEXT
    \/ Done

Spec == Init /\ [][Next]_vars

\* The commands that set ignored flags among the commands that put plates
\* on the track and take them off, and the dashboard's fault switches.
NextIgnore ==
    \/ IGNORESTOP
    \/ IGNOREALLSTOPS
    \/ DISPENSE
    \/ MOVEPLATE
    \/ SENDPLATE
    \/ RECEIVEPLATE
    \/ SetErrorFlag
    \/ Done

SpecIgnore == Init /\ [][NextIgnore]_vars

\* ----------------------------------------------------- a device of one stack
\* StackLinkState(num_stacks=1): the lift map still names lifts 1 and 2, and
\* lift 2 has no stack.
InitOneStack ==
    /\ stops = [i \in StopIds |-> TrackStop(i)]
    /\ stacks = [i \in {1} |-> Stack(i, Capacity, default_stack_counts[i])]
    /\ error_flags = [k \in FlagNames |-> FALSE]
    /\ next_plate_id = 1
    /\ last = <<>>
    /\ InitThreads
    /\ InitConns

NextOneStack ==
    \/ DISPENSE
    \/ RETURN
    \/ MOVEPLATE
    \/ SHIFTPLATES
    \/ RECEIVEPLATE
    \/ SetStackCount
    \/ ResetState
    \/ RETURN_AFTER_DISPENSE
    \/ GETSTOPSENSORS_NEXT
    \/ Done

SpecOneStack == InitOneStack /\ [][NextOneStack]_vars

\* ====================================================== connection threads
\* TCPServer.run starts one thread per accepted connection and handle_client
\* calls the handler with no lock held. The handlers of stacklink_commands
\* sleep for the simulated hardware delay; a handler is modelled in two steps,
\* up to its time.sleep and from it to its return, so that the other
\* connections run while it sleeps.

\* state.error_flags.get(name, False)
FlagGet(name) == IF name \in DOMAIN error_flags THEN error_flags[name] ELSE FALSE

\* f"{base}_{lift}"
LiftFlag(base, lift) == base \o "_" \o ToString(lift)

\* the handler returned before its delay: nothing changed
Replied(code, msg) ==
    [sleep |-> FALSE, code |-> code, msg |-> msg, stops |-> stops,
     stacks |-> stacks, next_plate_id |-> next_plate_id, frame |-> NoFrame,
     active_moves |-> active_moves]

\* the handler reached its time.sleep with these effects and locals
Sleeping(st, sk, npid, fr, am) ==
    [sleep |-> TRUE, code |-> 0, msg |-> "", stops |-> st, stacks |-> sk,
     next_plate_id |-> npid, frame |-> fr, active_moves |-> am]

\* stacklink_commands.cmd_dispense up to the delay
sl_cmd_dispense_begin(args) ==
    IF Len(args) # 2 \/ ~args[2].isint THEN Replied(1, "Invalid parameters")
    ELSE LET lift == args[2].n IN
         IF lift \notin DOMAIN lift_map THEN Replied(1, "Unknown lift")
         ELSE LET stop_id == lift_map[lift] IN
              IF FlagGet(LiftFlag("lift_blocked", lift))
                  THEN Replied(2001, "Cannot dispense; lift is blocked")
              ELSE IF FlagGet(LiftFlag("dispense_failure", lift))
                  THEN Replied(2000, "No object was dispensed")
              ELSE IF stops[stop_id].has_plate
                  THEN Replied(2001, "Cannot dispense; lift is blocked")
              ELSE IF lift \notin DOMAIN stacks
                  THEN Replied(2000, "No object was dispensed")
              ELSE LET d == Stack_dispense(stacks[lift]) IN
                   IF ~d.ok THEN Replied(2000, "No object was dispensed")
                   ELSE Sleeping(stops, [stacks EXCEPT ![lift] = d.stack],
                                 next_plate_id + 1,
                                 [NoFrame EXCEPT !.op = "DISPENSE",
                                                 !.lift = lift,
                                                 !.stop_id = stop_id,
                                                 !.plate_id = next_plate_id],
                                 active_moves)

\* stacklink_commands.cmd_dispense after the delay: the plate is on the lift
sl_cmd_dispense_end(fr) ==
    [code |-> 0, msg |-> "Success",
     stops |-> [stops EXCEPT ![fr.stop_id].has_plate = TRUE,
                             ![fr.stop_id].plate_id = fr.plate_id],
     stacks |-> stacks, active_moves |-> active_moves]

\* stacklink_commands.cmd_return up to the delay: the lift's stop is cleared
sl_cmd_return_begin(args) ==
    IF Len(args) # 2 \/ ~args[2].isint THEN Replied(1, "Invalid parameters")
    ELSE LET lift == args[2].n IN
         IF lift \notin DOMAIN lift_map THEN Replied(1, "Unknown lift")
         ELSE LET stop_id == lift_map[lift] IN
              IF FlagGet(LiftFlag("lift_blocked", lift))
                  THEN Replied(2001, "Cannot dispense; lift is blocked")
              ELSE IF FlagGet(LiftFlag("stack_full", lift))
                  THEN Replied(2003, "Stack full")
              ELSE IF ~stops[stop_id].has_plate
                  THEN Replied(2002, "No plate at lift")
              ELSE Sleeping([stops EXCEPT ![stop_id].has_plate = FALSE,
                                          ![stop_id].plate_id = None],
                            stacks, next_plate_id,
                            [NoFrame EXCEPT !.op = "RETURN", !.lift = lift,
                                            !.stop_id = stop_id],
                            active_moves)

\* stacklink_commands.cmd_return after the delay: the stack takes the plate
sl_cmd_return_end(fr) ==
    LET r == Stack_return_plate(stacks[fr.lift]) IN
    [code |-> IF r.ok THEN 0 ELSE 2003,
     msg |-> IF r.ok THEN "Success" ELSE "Stack full",
     stops |-> stops,
     stacks |-> [stacks EXCEPT ![fr.lift] = r.stack],
     active_moves |-> active_moves]

\* state.active_moves[plate_id] = {...} and state.active_moves.pop(plate_id)
PutMove(am, plate_id, source, dest) ==
    {m \in am : m.plate_id # plate_id}
        \cup {[plate_id |-> plate_id, source |-> source, dest |-> dest]}

PopMove(am, plate_id) == {m \in am : m.plate_id # plate_id}

\* stacklink_commands.cmd_moveplate up to the delay: the plate has left the
\* source and the move is registered when the plate has an id
sl_cmd_moveplate_begin(args) ==
    IF Len(args) # 3 \/ \E k \in 1..3 : ~args[k].isint
        THEN Replied(1, "Invalid parameters")
    ELSE LET source == args[2].n
             dest == args[3].n
         IN  IF source \notin DOMAIN stops \/ dest \notin DOMAIN stops
                 THEN Replied(1, "Stop out of range")
             ELSE IF FlagGet("movement_blocked")
                 THEN Replied(57, "Movement blocked")
             ELSE IF ~stops[source].has_plate
                 THEN Replied(2004, "No plate at source")
             ELSE IF PathBlocked(source, dest)
                 THEN Replied(57, "Movement blocked")
             ELSE LET plate_id == stops[source].plate_id IN
                  Sleeping([stops EXCEPT ![source].has_plate = FALSE,
                                         ![source].plate_id = None],
                           stacks, next_plate_id,
                           [NoFrame EXCEPT !.op = "MOVEPLATE",
                                           !.source = source, !.dest = dest,
                                           !.plate_id = plate_id],
                           IF plate_id # None
                               THEN PutMove(active_moves, plate_id, source, dest)
                               ELSE active_moves)

\* stacklink_commands.cmd_moveplate after the delay: the registry entry is
\* removed and the plate arrives
sl_cmd_moveplate_end(fr) ==
    LET st == [stops EXCEPT ![fr.dest].has_plate = TRUE,
                            ![fr.dest].plate_id = fr.plate_id]
    IN  [code |-> 0, msg |-> stops_status_string(st), stops |-> st,
         stacks |-> stacks,
         active_moves |-> IF fr.plate_id # None
                              THEN PopMove(active_moves, fr.plate_id)
                              ELSE active_moves]

\* cmd_moveplate as it would be without the finally clause: a delay that
\* raises leaves the registry entry behind
sl_cmd_moveplate_raise_leaking(fr) ==
    [code |-> 9999, msg |-> "Internal error", stops |-> stops,
     stacks |-> stacks, active_moves |-> active_moves]

\* stacklink_commands.cmd_moveplate when time.sleep raises: the finally
\* clause removes the registry entry, the plate does not arrive and the
\* exception leaves the handler
sl_cmd_moveplate_raise(fr) ==
    [code |-> 9999, msg |-> "Internal error", stops |-> stops,
     stacks |-> stacks,
     active_moves |-> IF fr.plate_id # None
                          THEN PopMove(active_moves, fr.plate_id)
                          ELSE active_moves]

\* stacklink_commands.cmd_receiveplate, which has no delay: the plate that
\* arrives has no id
sl_cmd_receiveplate(args) ==
    IF Len(args) # 2 \/ ~args[2].isint THEN Replied(1, "Invalid parameters")
    ELSE LET stop == args[2].n
             lifts == {k \in DOMAIN lift_map : lift_map[k] = stop}
         IN  IF stop \notin DOMAIN stops THEN Replied(1, "Stop out of range")
             ELSE IF \E k \in lifts :
                        /\ \A j \in lifts : k <= j
                        /\ FlagGet(LiftFlag("lift_blocked", k))
                 THEN Replied(2001, "Cannot dispense; lift is blocked")
             ELSE IF stops[stop].has_plate
                 THEN Replied(2001, "Cannot dispense; lift is blocked")
             ELSE [Replied(0, "Success") EXCEPT
                      !.stops = [stops EXCEPT ![stop].has_plate = TRUE,
                                              ![stop].plate_id = None]]

\* what connection c was answered
Heard(c, op, code, msg) == [conn |-> c, op |-> op, code |-> code, msg |-> msg]

\* connection c's thread runs a handler up to its return or its delay
Begin(c, op, args, r) ==
    /\ Within(r.stops, error_flags, r.next_plate_id)
    /\ stops' = r.stops
    /\ stacks' = r.stacks
    /\ next_plate_id' = r.next_plate_id
    /\ active_moves' = r.active_moves
    /\ IF r.sleep
           THEN /\ pc' = [pc EXCEPT ![c] = "sleep"]
                /\ frame' = [frame EXCEPT ![c] = r.frame]
                /\ UNCHANGED last
           ELSE /\ last' = <<Heard(c, op, r.code, r.msg)>>
                /\ UNCHANGED <<pc, frame>>
    /\ UNCHANGED <<error_flags, conn>>

\* the end of a handler as it would be if a handler had to wait until no
\* other connection is in a delay
End_exclusive(c, op, r) ==
    /\ \A d \in Conns \ {c} : pc[d] # "sleep"
    /\ stops' = r.stops
    /\ stacks' = r.stacks
    /\ active_moves' = r.active_moves
    /\ pc' = [pc EXCEPT ![c] = "idle"]
    /\ frame' = [frame EXCEPT ![c] = NoFrame]
    /\ last' = <<Heard(c, op, r.code, r.msg)>>
    /\ UNCHANGED <<error_flags, next_plate_id, conn>>

\* connection c's thread wakes up, finishes its handler and answers
End(c, op, r) ==
    /\ stops' = r.stops
    /\ stacks' = r.stacks
    /\ active_moves' = r.active_moves
    /\ pc' = [pc EXCEPT ![c] = "idle"]
    /\ frame' = [frame EXCEPT ![c] = NoFrame]
    /\ last' = <<Heard(c, op, r.code, r.msg)>>
    /\ UNCHANGED <<error_flags, next_plate_id, conn>>

T_DISPENSE_begin(c) ==
    /\ pc[c] = "idle"
    /\ \E args \in {<<Track, l>> : l \in LiftFields} :
        \E r \in {sl_cmd_dispense_begin(args)} : Begin(c, "DISPENSE", args, r)

T_DISPENSE_end(c) ==
    /\ pc[c] = "sleep" /\ frame[c].op = "DISPENSE"
    /\ End(c, "DISPENSE", sl_cmd_dispense_end(frame[c]))

T_RETURN_begin(c) ==
    /\ pc[c] = "idle"
    /\ \E args \in {<<Track, l>> : l \in LiftFields} :
        \E r \in {sl_cmd_return_begin(args)} : Begin(c, "RETURN", args, r)

T_RETURN_end(c) ==
    /\ pc[c] = "sleep" /\ frame[c].op = "RETURN"
    /\ End(c, "RETURN", sl_cmd_return_end(frame[c]))

T_MOVEPLATE_begin(c) ==
    /\ pc[c] = "idle"
    /\ \E args \in {<<Track, IntF(a), IntF(b)>> : a \in StopIds, b \in StopIds} :
        \E r \in {sl_cmd_moveplate_begin(args)} : Begin(c, "MOVEPLATE", args, r)

T_MOVEPLATE_end(c) ==
    /\ pc[c] = "sleep" /\ frame[c].op = "MOVEPLATE"
    /\ End(c, "MOVEPLATE", sl_cmd_moveplate_end(frame[c]))

T_MOVEPLATE_raise(c) ==
    /\ pc[c] = "sleep" /\ frame[c].op = "MOVEPLATE"
    /\ End(c, "MOVEPLATE", sl_cmd_moveplate_raise(frame[c]))

T_RECEIVEPLATE(c) ==
    /\ pc[c] = "idle"
    /\ \E args \in {<<Track, IntF(s)>> : s \in StopIds} :
        \E r \in {sl_cmd_receiveplate(args)} : Begin(c, "RECEIVEPLATE", args, r)

\* a connection reads the stop sensors: handle_command("GETSTOPSENSORS 1")
T_GETSTOPSENSORS(c) ==
    /\ pc[c] = "idle"
    /\ \E r \in {cmd_getstopsensors(<<Track>>)} :
        last' = <<Heard(c, "GETSTOPSENSORS", r.code, r.msg)>>
    /\ UNCHANGED <<stops, stacks, error_flags, next_plate_id, threadVars>>

\* the dashboard refills or empties a stack while the connections run
T_SetStackCount ==
    /\ \E index \in StackIds, count \in 0..Capacity :
        stacks' = set_stack_count(index, count).stacks
    /\ UNCHANGED <<stops, error_flags, next_plate_id, last, threadVars>>

\* the dashboard resets the device while the connections run
T_ResetState ==
    /\ \E r \in {reset_state(<<>>)} :
        /\ stops' = r.stops
        /\ stacks' = r.stacks
        /\ error_flags' = r.error_flags
        /\ next_plate_id' = r.next_plate_id
    /\ last' = <<Heard(0, "reset_state", 0, "")>>
    /\ UNCHANGED threadVars

NextThreads ==
    \/ \E c \in Conns : T_DISPENSE_begin(c)
    \/ \E c \in Conns : T_DISPENSE_end(c)
    \/ \E c \in Conns : T_RETURN_begin(c)
    \/ \E c \in Conns : T_RETURN_end(c)
    \/ \E c \in Conns : T_MOVEPLATE_begin(c)
    \/ \E c \in Conns : T_MOVEPLATE_end(c)
    \/ \E c \in Conns : T_GETSTOPSENSORS(c)
    \/ T_SetStackCount

SpecThreads == Init /\ [][NextThreads]_vars

\* The lifts at work: the connections dispense and return plates while the
\* dashboard refills the stacks. time.sleep returns after its delay and every
\* thread that can run is scheduled, so a handler in its delay eventually
\* takes its last step.
NextDelays ==
    \/ \E c \in Conns : T_DISPENSE_begin(c)
    \/ \E c \in Conns : T_DISPENSE_end(c)
    \/ \E c \in Conns : T_RETURN_begin(c)
    \/ \E c \in Conns : T_RETURN_end(c)
    \/ T_SetStackCount

FairThreads ==
    /\ Init /\ [][NextDelays]_vars
    /\ \A c \in Conns : /\ WF_vars(T_DISPENSE_end(c))
                        /\ WF_vars(T_RETURN_end(c))

\* The connections dispense and move plates, a delay may end with an error,
\* and the dashboard may reset the device at any moment.
NextMoves ==
    \/ \E c \in Conns : T_DISPENSE_begin(c)
    \/ \E c \in Conns : T_DISPENSE_end(c)
    \/ \E c \in Conns : T_MOVEPLATE_begin(c)
    \/ \E c \in Conns : T_MOVEPLATE_end(c)
    \/ \E c \in Conns : T_MOVEPLATE_raise(c)
    \/ \E c \in Conns : T_RECEIVEPLATE(c)
    \/ T_ResetState

SpecMoves == Init /\ [][NextMoves]_vars

\* ====================================================== connection contexts
\* TCPServer.handle_client, one thread per connection. The bytes of a
\* connection are a sequence of pieces of text: "\r" and "\n" are pieces of
\* their own and a command may be cut into two pieces, so that a receive can
\* end inside a line and inside a command.
CR == "\r"
LF == "\n"

\* what a client writes in one go: a command ended by "\r\n" or by "\n", a
\* line of carriage returns, a line of blanks and an empty line
ClientLines ==
    {<<"DISPENSE", " 1,1", CR, LF>>,
     <<"RETURN 1,1", LF>>,
     <<CR, CR, LF>>,
     <<" ", CR, LF>>,
     <<LF>>}

Closed(c) == conn[c].state \in {"eof", "recv_failed", "send_failed"}

\* "\n" in buffer
HasLine(b) == \E k \in 1..Len(b) : b[k] = LF

\* line, buffer = buffer.split("\n", 1)
SplitLine(b) ==
    LET k == CHOOSE k \in 1..Len(b) :
                 b[k] = LF /\ \A j \in 1..(k - 1) : b[j] # LF
    IN  [line |-> SubSeq(b, 1, k - 1), rest |-> SubSeq(b, k + 1, Len(b))]

\* line.rstrip("\r") as it would be if it took one "\r" only
RStrip_one(line) ==
    IF line # <<>> /\ line[Len(line)] = CR
        THEN SubSeq(line, 1, Len(line) - 1)
        ELSE line

\* line.rstrip("\r")
RECURSIVE RStrip(_)
RStrip(line) ==
    IF line # <<>> /\ line[Len(line)] = CR
        THEN RStrip(SubSeq(line, 1, Len(line) - 1))
        ELSE line

\* the text of a line
RECURSIVE Text(_)
Text(line) == IF line = <<>> THEN "" ELSE line[1] \o Text(Tail(line))

\* the decimal digits of a natural number
Digit == <<"0", "1", "2", "3", "4", "5", "6", "7", "8", "9">>

RECURSIVE Digits(_)
Digits(n) ==
    IF n < 10 THEN <<Digit[n + 1]>>
    ELSE Digits(n \div 10) \o <<Digit[(n % 10) + 1]>>

\* zeros in front of t up to the width
RECURSIVE ZeroPad(_, _)
ZeroPad(t, width) == IF Len(t) >= width THEN t ELSE ZeroPad(<<"0">> \o t, width)

\* the code line as it would be without the width of the format
code_message_bare(code, message) == Digits(code) \o <<" ", message>>

\* f"{code:04d} {message}", as the characters of the code, a blank and the
\* message
code_message(code, message) == ZeroPad(Digits(code), 4) \o <<" ", message>>

\* the lines of a response as they would be if every response were closed
\* by 'End of List'
response_lines_closed(echo, codeline, extra) ==
    <<(<<echo>>), codeline>> \o [k \in 1..Len(extra) |-> <<extra[k]>>]
        \o <<(<<"End of List">>)>>

\* response_lines of handle_client: the echo, the code line, the extra lines
\* and, when there are extra lines, 'End of List'
response_lines(echo, codeline, extra) ==
    <<(<<echo>>), codeline>> \o [k \in 1..Len(extra) |-> <<extra[k]>>]
        \o (IF extra # <<>> THEN <<(<<"End of List">>)>> ELSE <<>>)

\* "\r\n".join(response_lines) + "\r\n"
RECURSIVE response_text(_)
response_text(lines) ==
    IF lines = <<>> THEN <<CR, LF>>
    ELSE IF Len(lines) = 1 THEN lines[1] \o <<CR, LF>>
    ELSE lines[1] \o <<CR, LF>> \o response_text(Tail(lines))

\* command lines a client writes, one of them with blanks around it
FrameLines ==
    {<<" VERSION ">>, <<"LISTCOMMANDS">>, <<"LISTCOMMANDS Plate">>,
     <<"LISTCOMMANDS zzz">>, <<"GETSTOPSENSORS 1">>, <<"DISPENSE 1,1">>,
     <<"MOVEPLATE 1,3,1">>, <<"FOOBAR">>, <<" ">>}

\* handle_command's reading of a raw line, for the lines the clients write:
\* command = raw.strip(), the upper-cased first word and the argument fields
ParseLine(line) ==
    LET raw == Text(line) IN
    CASE \A k \in 1..Len(line) : line[k] \in {" ", CR} ->
            [command |-> "", name |-> "", args |-> NoArgs]
      [] raw = "DISPENSE 1,1" ->
            [command |-> raw, name |-> "DISPENSE", args |-> <<Track, IntF(1)>>]
      [] raw = "RETURN 1,1" ->
            [command |-> raw, name |-> "RETURN", args |-> <<Track, IntF(1)>>]
      [] raw = " VERSION " ->
            [command |-> "VERSION", name |-> "VERSION", args |-> NoArgs]
      [] raw = "LISTCOMMANDS" ->
            [command |-> raw, name |-> "LISTCOMMANDS", args |-> NoArgs]
      [] raw = "LISTCOMMANDS Plate" ->
            [command |-> raw, name |-> "LISTCOMMANDS",
             args |-> <<WordF("Plate")>>]
      [] raw = "LISTCOMMANDS zzz" ->
            [command |-> raw, name |-> "LISTCOMMANDS",
             args |-> <<WordF("zzz")>>]
      [] raw = "GETSTOPSENSORS 1" ->
            [command |-> raw, name |-> "GETSTOPSENSORS", args |-> <<Track>>]
      [] raw = "MOVEPLATE 1,3,1" ->
            [command |-> raw, name |-> "MOVEPLATE",
             args |-> <<Track, IntF(3), IntF(1)>>]
      [] raw = "FOOBAR" ->
            [command |-> raw, name |-> "FOOBAR", args |-> NoArgs]

ConnFrame == <<error_flags, last, pc, frame, active_moves>>
DeviceFrame == <<stops, stacks, error_flags, next_plate_id>>

\* the client writes a line to its socket
ClientSend(c) ==
    /\ ~Closed(c)
    /\ conn[c].sends < MaxSends
    /\ \E text \in ClientLines :
        conn' = [conn EXCEPT ![c].wire = @ \o text,
                             ![c].sent = @ \o text,
                             ![c].sends = @ + 1]
    /\ UNCHANGED <<DeviceFrame, last, pc, frame, active_moves>>

\* data = conn.recv(1024) returns some of the bytes that have arrived;
\* buffer += data
Recv(c) ==
    /\ conn[c].state = "recv"
    /\ conn[c].wire # <<>>
    /\ \E k \in 1..Len(conn[c].wire) :
        conn' = [conn EXCEPT
                    ![c].buffer = @ \o SubSeq(conn[c].wire, 1, k),
                    ![c].wire = SubSeq(@, k + 1, Len(@)),
                    ![c].state = "lines"]
    /\ UNCHANGED <<DeviceFrame, last, pc, frame, active_moves>>

\* the end of a connection as it would be if it also reset the device
PeerClose_resetting(c) ==
    /\ conn[c].state = "recv"
    /\ conn[c].wire = <<>>
    /\ conn' = [conn EXCEPT ![c].state = "eof"]
    /\ stops' = [i \in DOMAIN stops |-> TrackStop(i)]
    /\ UNCHANGED <<stacks, error_flags, next_plate_id, last, pc, frame,
                   active_moves>>

\* the peer has closed: recv returns no data and the loop is left
PeerClose(c) ==
    /\ conn[c].state = "recv"
    /\ conn[c].wire = <<>>
    /\ conn' = [conn EXCEPT ![c].state = "eof"]
    /\ UNCHANGED <<DeviceFrame, last, pc, frame, active_moves>>

\* recv raises: the loop is left
RecvFail(c) ==
    /\ conn[c].state = "recv"
    /\ conn' = [conn EXCEPT ![c].state = "recv_failed"]
    /\ UNCHANGED <<DeviceFrame, last, pc, frame, active_moves>>

\* while "\n" in buffer: a line that is empty after rstrip is skipped
SkipLine(c) ==
    /\ conn[c].state = "lines"
    /\ HasLine(conn[c].buffer)
    /\ LET sp == SplitLine(conn[c].buffer) IN
        /\ RStrip(sp.line) = <<>>
        /\ conn' = [conn EXCEPT ![c].buffer = sp.rest]
    /\ UNCHANGED <<DeviceFrame, last, pc, frame, active_moves>>

\* while "\n" in buffer: self.state.handle_command(line) and the response
\* text made of what it returns
HandleLine(c) ==
    /\ conn[c].state = "lines"
    /\ HasLine(conn[c].buffer)
    /\ LET sp == SplitLine(conn[c].buffer)
            line == RStrip(sp.line)
        IN  /\ line # <<>>
            /\ \E p \in {ParseLine(line)} :
                \E r \in {handle_command(p.name, p.args)} :
                    /\ stops' = r.stops
                    /\ stacks' = r.stacks
                    /\ next_plate_id' = r.next_plate_id
                    /\ conn' = [conn EXCEPT
                                  ![c].buffer = sp.rest,
                                  ![c].done = Append(@,
                                      [line |-> line, echo |-> p.command,
                                       op |-> p.name, code |-> r.code,
                                       msg |-> r.msg, extra |-> r.extra,
                                       text |-> response_text(
                                           response_lines(p.command,
                                               code_message(r.code, r.msg),
                                               r.extra))]),
                                  ![c].state = "send"]
    /\ UNCHANGED ConnFrame

\* no "\n" is left in the buffer: back to recv
AwaitBytes(c) ==
    /\ conn[c].state = "lines"
    /\ ~HasLine(conn[c].buffer)
    /\ conn' = [conn EXCEPT ![c].state = "recv"]
    /\ UNCHANGED <<DeviceFrame, last, pc, frame, active_moves>>

\* conn.sendall(response_text)
SendAll(c) ==
    /\ conn[c].state = "send"
    /\ conn' = [conn EXCEPT ![c].out = Append(@, conn[c].done[Len(conn[c].done)]),
                            ![c].state = "lines"]
    /\ UNCHANGED <<DeviceFrame, last, pc, frame, active_moves>>

\* sendall raises: the exception leaves handle_client and ends the thread
SendFail(c) ==
    /\ conn[c].state = "send"
    /\ conn' = [conn EXCEPT ![c].state = "send_failed"]
    /\ UNCHANGED <<DeviceFrame, last, pc, frame, active_moves>>

NextConns ==
    \/ \E c \in Conns : ClientSend(c)
    \/ \E c \in Conns : Recv(c)
    \/ \E c \in Conns : PeerClose(c)
    \/ \E c \in Conns : RecvFail(c)
    \/ \E c \in Conns : SkipLine(c)
    \/ \E c \in Conns : HandleLine(c)
    \/ \E c \in Conns : AwaitBytes(c)
    \/ \E c \in Conns : SendAll(c)
    \/ \E c \in Conns : SendFail(c)

SpecConns == Init /\ [][NextConns]_vars

\* a client writes one command line and waits for the answer: recv returns
\* the whole line
FrameArrives(c) ==
    /\ conn[c].state = "recv"
    /\ conn[c].wire = <<>>
    /\ conn[c].buffer = <<>>
    /\ conn[c].sends < MaxSends
    /\ \E line \in FrameLines :
        conn' = [conn EXCEPT ![c].sent = @ \o line \o <<CR, LF>>,
                             ![c].sends = @ + 1,
                             ![c].buffer = line \o <<CR, LF>>,
                             ![c].state = "lines"]
    /\ UNCHANGED <<DeviceFrame, last, pc, frame, active_moves>>

\* Clients that write whole command lines, with and without extra lines in
\* the answer.
NextFrames ==
    \/ \E c \in Conns : FrameArrives(c)
    \/ \E c \in Conns : HandleLine(c)
    \/ \E c \in Conns : AwaitBytes(c)
    \/ \E c \in Conns : SendAll(c)
    \/ \E c \in Conns : SendFail(c)

SpecFrames == Init /\ [][NextFrames]_vars

\* ========================================================= the batch client
\* client_demo_all_rigs.py against the device as server.py creates it:
\* StackLinkState() has 8 stops and two stacks of capacity 30, the first with
\* 15 plates.
DefaultStops == 8
StackCapacity == 30
InputCount == 15

\* the camera stops in the opposite order
CAMERA_STOPS_nearfirst == <<2, 5, 6, 7, 8>>

CAMERA_STOPS == <<8, 7, 6, 5, 2>>

InitBatch ==
    /\ stops = [i \in 1..DefaultStops |-> TrackStop(i)]
    /\ stacks = [i \in StackIds |->
                    Stack(i, StackCapacity, IF i = 1 THEN InputCount ELSE 0)]
    /\ error_flags = [k \in FlagNames |-> FALSE]
    /\ next_plate_id = 1
    /\ last = <<>>
    /\ InitThreads
    /\ InitConns

\* the command process_batch sends next
BatchCommand(s) ==
    LET stop == IF s.phase = "fill" THEN CAMERA_STOPS[s.i] ELSE s.filled[s.j]
    IN  CASE s.phase = "fill" /\ s.step = 1 ->
                [name |-> "DISPENSE", args |-> <<Track, IntF(1)>>]
          [] s.phase = "fill" /\ s.step = 2 ->
                [name |-> "MOVEPLATE", args |-> <<Track, IntF(3), IntF(stop)>>]
          [] s.phase = "fill" /\ s.step = 3 ->
                [name |-> "IGNORESTOP",
                 args |-> <<Track, IntF(stop), WordF("true")>>]
          [] s.phase = "drain" /\ s.step = 1 ->
                [name |-> "IGNORESTOP",
                 args |-> <<Track, IntF(stop), WordF("false")>>]
          [] s.phase = "drain" /\ s.step = 2 ->
                [name |-> "MOVEPLATE", args |-> <<Track, IntF(stop), IntF(4)>>]
          [] s.phase = "drain" /\ s.step = 3 ->
                [name |-> "RETURN", args |-> <<Track, IntF(2)>>]

\* send_command's reading of the response: int(lines[1].split()[0]), the
\* number in front of the first blank of the line after the echo
read_code(text) ==
    LET blank == CHOOSE k \in 4..Len(text) :
                     text[k] = " " /\ \A m \in 4..(k - 1) : text[m] # " "
        value(d) == CHOOSE n \in 0..9 : Digit[n + 1] = d
        int[k \in 3..Len(text)] ==
            IF k = 3 THEN 0 ELSE 10 * int[k - 1] + value(text[k])
    IN  int[blank - 1]

\* where the client is after the answer `code`: attempt_command returns on
\* code 0, returns 2000 for a DISPENSE when no fault is set and stack 1 is
\* empty, and otherwise asks the user (handle_error); process_batch goes on
\* to the next command, main starts the next batch or ends
Advance(s, code, faulty, remaining) ==
    LET drain(f) == [s EXCEPT !.phase = "drain", !.step = 1, !.filled = f,
                              !.j = Len(f)]
    IN  IF s.phase = "fill" /\ s.step = 1 /\ code = 2000
               /\ ~faulty /\ remaining = 0
            THEN IF s.filled = <<>> THEN [s EXCEPT !.phase = "done"]
                 ELSE drain(s.filled)
        ELSE IF code # 0 THEN [s EXCEPT !.phase = "prompt"]
        ELSE IF s.step < 3 THEN [s EXCEPT !.step = @ + 1]
        ELSE IF s.phase = "fill"
            THEN LET f == Append(s.filled, CAMERA_STOPS[s.i]) IN
                 IF s.i < Len(CAMERA_STOPS)
                     THEN [s EXCEPT !.i = @ + 1, !.step = 1, !.filled = f]
                     ELSE drain(f)
        ELSE IF s.j > 1 THEN [s EXCEPT !.j = @ - 1, !.step = 1]
        ELSE ClientStart

\* attempt_command: the client sends its next command, the server handles
\* the line and answers, and the client reads the code of the answer
SendCommand ==
    /\ Idle
    /\ conn[1].script.phase \in {"fill", "drain"}
    /\ LET s == conn[1].script
           cmd == BatchCommand(s)
       IN  \E r \in {handle_command(cmd.name, cmd.args)} :
             LET text == response_text(response_lines(cmd.name,
                             code_message(r.code, r.msg), r.extra))
             IN  /\ stops' = r.stops
                 /\ stacks' = r.stacks
                 /\ next_plate_id' = r.next_plate_id
                 /\ last' = <<Answer(cmd.name, cmd.args, r.code, r.msg,
                                     r.extra, "")>>
                 /\ conn' = [conn EXCEPT ![1].script =
                                Advance(s, read_code(text),
                                        \E k \in DOMAIN error_flags :
                                            error_flags[k],
                                        r.stacks[1].count)]
    /\ UNCHANGED <<error_flags, pc, frame, active_moves>>

NextBatch ==
    \/ SendCommand
    \/ Done

\* the client program runs on as long as it has a command to send
SpecBatch == InitBatch /\ [][NextBatch]_vars /\ WF_vars(NextBatch)

\* ================================================================ claims
\* the entry of the exchange that was answered last
Rec == last[Len(last)]

NoFault(d) == \A k \in DOMAIN d.error_flags : ~d.error_flags[k]

\* a well-formed argument list of n integer fields
IntArgs(args, n) == Len(args) = n /\ \A k \in 1..n : args[k].isint

\* the stops a plate passes on its way from a to b, b included, a excluded
Travelled(a, b) == {i \in StopIds : (a < i /\ i <= b) \/ (b <= i /\ i < a)}

\* ---------------------------------------------------------------- C1
\* C1: in every reachable state every stack has 0 <= count <= capacity.
C1_CountWithinCapacity ==
    \A i \in DOMAIN stacks :
        0 <= stacks[i].count /\ stacks[i].count <= stacks[i].capacity

\* set_stack_count was given more than the capacity and the stack is full
C1_Witness ==
    /\ Len(last) = 1
    /\ Rec.op = "set_stack_count"
    /\ Rec.ret = "True"
    /\ Rec.args[2] > Capacity
    /\ stacks[Rec.args[1]].count = Capacity

\* ---------------------------------------------------------------- C2
\* the connections that are inside a command handler
InHandler == {c \in Conns : pc[c] # "idle"}

\* C2: command execution is mutually exclusive across connections: while one
\* connection's handler is between its start and its return, its delay
\* included, no other connection's handler has started.
C2_OneHandlerAtATime == Cardinality(InHandler) <= 1

\* ---------------------------------------------------------------- C3
\* C3: for every stop, plate_id is non-null exactly when has_plate is true.
C3_PlateIdIffHasPlate ==
    \A i \in DOMAIN stops : (stops[i].plate_id # None) <=> stops[i].has_plate

\* ---------------------------------------------------------------- C4
\* the answered command names a stop that is not a stop of the track
UnknownStopCase(rec) ==
    \/ /\ rec.op \in {"HASPLATE", "GETIGNORESTOP", "SENDPLATE", "RECEIVEPLATE"}
       /\ IntArgs(rec.args, 2)
       /\ rec.args[2].n \notin StopIds
    \/ /\ rec.op = "IGNORESTOP"
       /\ Len(rec.args) = 3
       /\ rec.args[1].isint /\ rec.args[2].isint
       /\ rec.args[2].n \notin StopIds
    \/ /\ rec.op = "MOVEPLATE"
       /\ IntArgs(rec.args, 3)
       /\ (rec.args[2].n \notin StopIds \/ rec.args[3].n \notin StopIds)

\* C4: HASPLATE, GETIGNORESTOP, IGNORESTOP, MOVEPLATE, SENDPLATE and
\* RECEIVEPLATE on a stop index that is not a stop answer code 1 and leave
\* Device State as it was, whatever fault flags are set.
C4_UnknownStopCode1 ==
    (Len(last) >= 1 /\ UnknownStopCase(Rec)) =>
        (Rec.code = 1 /\ Device = Rec.pre)

\* RECEIVEPLATE or MOVEPLATE on an unknown stop, answered with a fault set
C4_Witness ==
    /\ Len(last) = 1
    /\ Rec.op \in {"MOVEPLATE", "RECEIVEPLATE"}
    /\ UnknownStopCase(Rec)
    /\ Rec.args[2].n = NumStops + 1
    /\ \E k \in {"movement_blocked", "lift_blocked"} : error_flags[k]
    /\ Rec.code = 1

\* ---------------------------------------------------------------- C5
\* the commands that take arguments: how many fields, and which of them are
\* integers (the track is field 1)
Arity ==
    [c \in {"GETSTOPSENSORS", "GETIGNORESTOPS", "ACKNOWLEDGESEND"} |-> 1]
    @@ [c \in {"HASPLATE", "GETIGNORESTOP", "IGNOREALLSTOPS", "DISPENSE", "RETURN",
               "SHIFTPLATES", "SENDPLATE", "RECEIVEPLATE"} |-> 2]
    @@ [c \in {"IGNORESTOP", "MOVEPLATE"} |-> 3]
    @@ [c \in {"IGNORESTOPRANGE"} |-> 4]

IntFieldsOf(c) ==
    CASE c \in {"HASPLATE", "GETIGNORESTOP", "DISPENSE", "RETURN", "SENDPLATE",
                "RECEIVEPLATE", "IGNORESTOP"} -> {1, 2}
      [] c \in {"MOVEPLATE", "IGNORESTOPRANGE"} -> {1, 2, 3}
      [] OTHER -> {1}

MalformedArgs(c, args) ==
    \/ Len(args) # Arity[c]
    \/ \E k \in IntFieldsOf(c) : ~args[k].isint

\* C5: a command that takes arguments and is given a malformed argument list
\* answers code 1 and leaves Device State unchanged.
C5_MalformedCode1 ==
    (/\ Len(last) >= 1
     /\ Rec.op \in DOMAIN Arity
     /\ MalformedArgs(Rec.op, Rec.args)) =>
        (Rec.code = 1 /\ Device = Rec.pre)

\* ---------------------------------------------------------------- C6
\* the exchange is a DISPENSE and then a RETURN on the known lift l, started
\* with no fault flag set
DispenseThenReturn(l) ==
    /\ Len(last) = 2
    /\ last[1].op = "DISPENSE" /\ last[2].op = "RETURN"
    /\ IntArgs(last[1].args, 2)
    /\ last[1].args[2].n = l
    /\ NoFault(last[1].pre)

RoundTripRestores(l) ==
    /\ stacks[l].count = last[1].pre.stacks[l].count
    /\ ~stops[lift_map[l]].has_plate

\* C6 as stated: from any state with no fault flag set, DISPENSE followed by
\* RETURN on the same lift restores the stack count and leaves the lift's stop
\* empty.
C6_RoundTripAnyState ==
    \A l \in DOMAIN lift_map : DispenseThenReturn(l) => RoundTripRestores(l)

\* C6, amended: the same when the lift's stop is empty before the DISPENSE.
C6_RoundTripFromEmptyLift ==
    \A l \in DOMAIN lift_map :
        (DispenseThenReturn(l) /\ ~last[1].pre.stops[lift_map[l]].has_plate)
            => RoundTripRestores(l)

\* a plate was dispensed to an empty lift stop and returned
C6_Witness ==
    \E l \in DOMAIN lift_map :
        /\ DispenseThenReturn(l)
        /\ ~last[1].pre.stops[lift_map[l]].has_plate
        /\ last[1].code = 0 /\ last[2].code = 0
        /\ last[2].pre.stacks[l].count = stacks[l].count - 1

\* ---------------------------------------------------------------- C7
\* the exchange is MOVEPLATE a->b and then MOVEPLATE b->a, started with a
\* plate at a, no fault set and every stop from a to b (b included) empty
MoveThereAndBack(a, b) ==
    /\ Len(last) = 2
    /\ last[1].op = "MOVEPLATE" /\ last[2].op = "MOVEPLATE"
    /\ IntArgs(last[1].args, 3)
    /\ last[1].args[2].n = a /\ last[1].args[3].n = b
    /\ last[2].args[2].n = b /\ last[2].args[3].n = a
    /\ NoFault(last[1].pre)
    /\ last[1].pre.stops[a].has_plate
    /\ ~last[1].pre.stops[b].has_plate
    /\ \A i \in Travelled(a, b) : ~last[1].pre.stops[i].has_plate

\* C7: then both moves answer code 0, every stop has its has_plate value back
\* and the plate at a carries the plate id it had.
C7_MoveRoundTrip ==
    \A a \in StopIds, b \in StopIds :
        MoveThereAndBack(a, b) =>
            /\ last[1].code = 0 /\ last[2].code = 0
            /\ \A i \in StopIds :
                stops[i].has_plate = last[1].pre.stops[i].has_plate
            /\ stops[a].plate_id = last[1].pre.stops[a].plate_id

\* a dispensed plate went two stops away, past a second plate's range, and back
C7_Witness ==
    \E a \in StopIds, b \in StopIds :
        /\ MoveThereAndBack(a, b)
        /\ (a - b >= 2 \/ b - a >= 2)
        /\ last[1].pre.stops[a].plate_id # None
        /\ last[2].pre.stops[b].plate_id = last[1].pre.stops[a].plate_id
        /\ stops[a].plate_id = last[1].pre.stops[a].plate_id

\* ---------------------------------------------------------------- C8
\* the answered command is MOVEPLATE a->b on known stops, started with a plate
\* at a and the movement-blocked flag clear
MoveCase(a, b) ==
    /\ Len(last) >= 1
    /\ Rec.op = "MOVEPLATE"
    /\ IntArgs(Rec.args, 3)
    /\ Rec.args[2].n = a /\ Rec.args[3].n = b
    /\ ~Rec.pre.error_flags["movement_blocked"]
    /\ Rec.pre.stops[a].has_plate

MoveBlockedIffOccupied(a, b) ==
    /\ Rec.code = 57 <=> \E i \in Travelled(a, b) : Rec.pre.stops[i].has_plate
    /\ Rec.code = 57 =>
        \A i \in StopIds :
            /\ stops[i].has_plate = Rec.pre.stops[i].has_plate
            /\ stops[i].plate_id = Rec.pre.stops[i].plate_id

MoveArrives(a, b) ==
    /\ Rec.code = 0
    /\ stops[b].has_plate
    /\ stops[b].plate_id = Rec.pre.stops[a].plate_id

\* C8 as stated: 57 exactly when a travelled stop is occupied, and then no
\* stop changes; otherwise 0 with the source empty and the plate and its id
\* at the destination.
C8_MovePathCheck ==
    \A a \in StopIds, b \in StopIds :
        MoveCase(a, b) =>
            /\ MoveBlockedIffOccupied(a, b)
            /\ Rec.code # 57 => (MoveArrives(a, b) /\ ~stops[a].has_plate)

\* C8, amended: the source is empty afterwards when it is not the destination.
C8_MovePathCheckDistinct ==
    \A a \in StopIds, b \in StopIds :
        MoveCase(a, b) =>
            /\ MoveBlockedIffOccupied(a, b)
            /\ Rec.code # 57 =>
                (MoveArrives(a, b) /\ (a # b => ~stops[a].has_plate))

\* a move was refused because a stop between source and destination, not the
\* destination itself, held a plate
C8_Witness ==
    \E a \in StopIds, b \in StopIds :
        /\ MoveCase(a, b)
        /\ Rec.code = 57
        /\ ~stops[b].has_plate
        /\ \E i \in Travelled(a, b) : i # b /\ stops[i].has_plate

\* ---------------------------------------------------------------- C9
\* the answered command is DISPENSE on the known lift l
DispenseCase(l) ==
    /\ Len(last) >= 1
    /\ Rec.op = "DISPENSE"
    /\ IntArgs(Rec.args, 2)
    /\ Rec.args[2].n = l
    /\ NoFault(Rec.pre)
    /\ ~Rec.pre.stops[lift_map[l]].has_plate

\* C9: with no fault, the lift's stop empty and c > 0 plates in the stack,
\* DISPENSE answers 0, the count becomes c - 1, the stop is occupied by a plate
\* whose id is the counter's value before the call, the counter grows by one
\* and no other stop or stack changes.
C9_DispenseSucceeds ==
    \A l \in DOMAIN lift_map :
        (DispenseCase(l) /\ Rec.pre.stacks[l].count > 0) =>
            /\ Rec.code = 0
            /\ stacks[l].count = Rec.pre.stacks[l].count - 1
            /\ stops[lift_map[l]].has_plate
            /\ stops[lift_map[l]].plate_id = Rec.pre.next_plate_id
            /\ stops[lift_map[l]].plate_id > 0
            /\ next_plate_id = Rec.pre.next_plate_id + 1
            /\ \A i \in StopIds \ {lift_map[l]} : stops[i] = Rec.pre.stops[i]
            /\ \A i \in StackIds \ {l} : stacks[i] = Rec.pre.stacks[i]

\* the second plate of a run was dispensed while the first was on the track
C9_Witness ==
    \E l \in DOMAIN lift_map :
        /\ DispenseCase(l)
        /\ Rec.pre.stacks[l].count > 0
        /\ Rec.code = 0
        /\ stops[lift_map[l]].plate_id = 2
        /\ \E i \in StopIds : stops[i].plate_id = 1 /\ stops[i].has_plate

\* ---------------------------------------------------------------- C10
\* C10: DISPENSE on a lift whose stack is empty (lift stop empty, no fault)
\* answers 2000 and changes nothing.
C10_DispenseEmptyStack ==
    \A l \in DOMAIN lift_map :
        (DispenseCase(l) /\ Rec.pre.stacks[l].count = 0) =>
            (Rec.code = 2000 /\ Device = Rec.pre)

\* stack 1 was emptied by dispensing and the next DISPENSE was refused
C10_Witness ==
    /\ DispenseCase(1)
    /\ Rec.pre.stacks[1].count = 0
    /\ Rec.pre.next_plate_id > 1
    /\ Rec.code = 2000
    /\ Rec.msg = "No object was dispensed"

\* ---------------------------------------------------------------- C11
\* the answered command is RETURN on the known lift l, started with no fault
\* set and no plate on the lift's stop
ReturnEmptyCase(l) ==
    /\ Len(last) >= 1
    /\ Rec.op = "RETURN"
    /\ IntArgs(Rec.args, 2)
    /\ Rec.args[2].n = l
    /\ NoFault(Rec.pre)
    /\ ~Rec.pre.stops[lift_map[l]].has_plate

\* C11: RETURN on a known lift whose stop holds no plate, with no fault set,
\* answers 2002 and leaves the stack counts and every stop as they were.
C11_ReturnNoPlate ==
    \A l \in DOMAIN lift_map :
        ReturnEmptyCase(l) =>
            /\ Rec.code = 2002
            /\ stacks = Rec.pre.stacks
            /\ stops = Rec.pre.stops

\* RETURN 1,2 was refused while lift 1's stop held a plate and stack 2 had room
C11_Witness ==
    /\ ReturnEmptyCase(2)
    /\ Rec.code = 2002
    /\ Rec.msg = "No plate at lift"
    /\ stops[lift_map[1]].has_plate
    /\ stacks[2].count < stacks[2].capacity

\* ---------------------------------------------------------------- C12
\* the operations of the dashboard, which are no command lines
DashboardOps ==
    {"set_error_flag", "set_plate_presence", "reset_state", "set_stack_count"}

\* the command name, upper-cased, is a name of the catalog in some letter case
CatalogUpper == {NameUpper(COMMAND_LIST[k]) : k \in 1..Len(COMMAND_LIST)}

Catalogued(op) == op \in CatalogUpper

\* the answered line names a command that has no implementation
NoHandlerCase ==
    /\ Len(last) >= 1
    /\ Rec.op \notin DashboardOps \cup {""}
    /\ NameLower(Rec.op) \notin HandlerNames

\* C12: a name of the catalog without implementation is answered 9999 'No
\* mock implementation for this command' and a name outside the catalog 0001
\* 'Unrecognized command', whatever letter case the client uses.
C12_CatalogOrUnrecognized ==
    NoHandlerCase =>
        IF Catalogued(Rec.op)
            THEN /\ Rec.code = 9999
                 /\ Rec.msg = "No mock implementation for this command"
            ELSE /\ Rec.code = 1
                 /\ Rec.msg = "Unrecognized command"

\* ---------------------------------------------------------------- C13
\* the answered line names a command outside the catalog
UnrecognizedCase(rec) ==
    /\ rec.op \notin DashboardOps \cup {""}
    /\ NameLower(rec.op) \notin HandlerNames
    /\ ~Catalogued(rec.op)

\* C13: an unrecognized name is answered 0001 'Unrecognized command' with no
\* extra lines and no change of Device State, and the next line of the same
\* connection is handled as usual.
C13_UnrecognizedThenUsable ==
    /\ (Len(last) >= 1 /\ UnrecognizedCase(last[1])) =>
        /\ last[1].code = 1
        /\ last[1].msg = "Unrecognized command"
        /\ last[1].extra = <<>>
    /\ (Len(last) = 1 /\ UnrecognizedCase(last[1])) => Device = last[1].pre
    /\ (Len(last) = 2 /\ UnrecognizedCase(last[1])) =>
        /\ last[2].op = "GETSTOPSENSORS"
        /\ last[2].code = 0
        /\ last[2].msg = stops_status_string(last[1].pre.stops)
        /\ Device = last[1].pre

\* FOOBAR was refused with a plate on the track and the GETSTOPSENSORS that
\* followed on the connection reported the plate
C13_Witness ==
    /\ Len(last) = 2
    /\ last[1].op = "FOOBAR"
    /\ last[1].code = 1
    /\ last[2].op = "GETSTOPSENSORS"
    /\ last[2].code = 0
    /\ \E i \in StopIds : stops[i].has_plate

\* ---------------------------------------------------------------- C14
\* C14: when a handler raises, the answer is 9999 'Internal error', Device
\* State is what it was before the command, and the connection handles its
\* next line.
C14_FailureLeavesState ==
    (Len(last) >= 1 /\ last[1].code = 9999) =>
        /\ last[1].msg = "Internal error"
        /\ Device = last[1].pre
        /\ Len(last) = 2 => last[2].code = 0

\* ---------------------------------------------------------------- C15
\* the answered command is IGNORESTOPRANGE track,start,end,b
IgnoreRangeCase ==
    /\ Len(last) >= 1
    /\ Rec.op = "IGNORESTOPRANGE"
    /\ Len(Rec.args) = 4
    /\ \A k \in 1..3 : Rec.args[k].isint

\* C15: IGNORESTOPRANGE answers 0 and sets ignored = b on exactly the stops
\* with start <= index <= end; has_plate, plate_id and every other ignored
\* flag stay; indexes that are no stops are skipped and an empty range changes
\* nothing.
C15_IgnoreRange ==
    IgnoreRangeCase =>
        LET start == Rec.args[2].n
            end == Rec.args[3].n
            b == IsTrue(Rec.args[4])
        IN  /\ Rec.code = 0
            /\ \A i \in StopIds :
                /\ stops[i].has_plate = Rec.pre.stops[i].has_plate
                /\ stops[i].plate_id = Rec.pre.stops[i].plate_id
                /\ stops[i].ignored =
                       IF start <= i /\ i <= end THEN b
                       ELSE Rec.pre.stops[i].ignored
            /\ start > end => stops = Rec.pre.stops
            /\ stacks = Rec.pre.stacks
            /\ error_flags = Rec.pre.error_flags
            /\ next_plate_id = Rec.pre.next_plate_id

\* a range that ends past the last stop set the flag on the last stop only,
\* next to a stop that holds a plate
C15_Witness ==
    /\ IgnoreRangeCase
    /\ Rec.args[2].n = NumStops /\ Rec.args[3].n = NumStops + 1
    /\ Rec.code = 0
    /\ stops[NumStops].ignored /\ ~Rec.pre.stops[NumStops].ignored
    /\ \A i \in StopIds \ {NumStops} : ~stops[i].ignored
    /\ \E i \in StopIds : stops[i].has_plate

\* ---------------------------------------------------------------- C16
\* the answered command is SHIFTPLATES with a direction word
ShiftCase ==
    /\ Len(last) >= 1
    /\ Rec.op = "SHIFTPLATES"
    /\ Len(Rec.args) = 2
    /\ ~Rec.args[2].isint
    /\ Lower(Rec.args[2].w) \in Directions

\* +1 for a forward shift, -1 for a reverse one
ShiftStep == IF Lower(Rec.args[2].w) \in {"forward", "fwd", "f"} THEN 1 ELSE -1

\* in state d the plate at stop i can advance: the first stop ahead of its run
\* of plates exists and is empty
CanAdvance(d, i, step) ==
    /\ d.stops[i].has_plate
    /\ \E j \in StopIds :
        /\ (j - i) * step > 0
        /\ ~d.stops[j].has_plate
        /\ \A m \in StopIds :
            ((m - i) * step > 0 /\ (j - m) * step > 0) => d.stops[m].has_plate

\* the occupancy of stop p after every plate that can advance has advanced
Shifted(d, p, step) ==
    \/ d.stops[p].has_plate /\ ~CanAdvance(d, p, step)
    \/ (p - step) \in StopIds /\ CanAdvance(d, p - step, step)

\* C16: with no fault, every plate that can advance moves one stop and no
\* other plate moves, the number of occupied stops is kept, and the answer is
\* 2005 with no change exactly when no plate can advance, otherwise 0.
C16_ShiftPlates ==
    (ShiftCase /\ NoFault(Rec.pre)) =>
        /\ \A p \in StopIds :
            stops[p].has_plate = Shifted(Rec.pre, p, ShiftStep)
        /\ PlatesOn(stops) = PlatesOn(Rec.pre.stops)
        /\ Rec.code = 2005 <=>
               ~\E i \in StopIds : CanAdvance(Rec.pre, i, ShiftStep)
        /\ Rec.code = 2005 => Device = Rec.pre
        /\ Rec.code # 2005 => Rec.code = 0

\* two plates on neighbouring stops advanced together
C16_Witness ==
    /\ ShiftCase /\ NoFault(Rec.pre)
    /\ Rec.code = 0
    /\ \E i \in StopIds :
        /\ (i + ShiftStep) \in StopIds /\ (i + 2 * ShiftStep) \in StopIds
        /\ Rec.pre.stops[i].has_plate /\ Rec.pre.stops[i + ShiftStep].has_plate
        /\ ~stops[i].has_plate
        /\ stops[i + ShiftStep].has_plate /\ stops[i + 2 * ShiftStep].has_plate

\* ---------------------------------------------------------------- C17
\* the answered command is MOVEPLATE between two stops of the track
MoveKnownCase ==
    /\ Len(last) >= 1
    /\ Rec.op = "MOVEPLATE"
    /\ IntArgs(Rec.args, 3)
    /\ Rec.args[2].n \in StopIds /\ Rec.args[3].n \in StopIds

\* C17: with the movement_blocked flag set SHIFTPLATES answers 57, also when
\* no plate can advance, and leaves the occupancy the shift produces without
\* the fault; MOVEPLATE answers 57 and changes no stop.
C17_MovementBlockedOrder ==
    /\ (ShiftCase /\ Rec.pre.error_flags["movement_blocked"]) =>
        /\ Rec.code = 57
        /\ \A p \in StopIds :
            stops[p].has_plate = Shifted(Rec.pre, p, ShiftStep)
    /\ (MoveKnownCase /\ Rec.pre.error_flags["movement_blocked"]) =>
        /\ Rec.code = 57
        /\ stops = Rec.pre.stops

\* a SHIFTPLATES answered 57 moved a plate
C17_Witness ==
    /\ ShiftCase
    /\ Rec.pre.error_flags["movement_blocked"]
    /\ Rec.code = 57
    /\ \E p \in StopIds : stops[p].has_plate /\ ~Rec.pre.stops[p].has_plate

\* ---------------------------------------------------------------- C18
\* the flags named for lift l: f"{category}_{l}"
LiftFaultNames(l) ==
    {LiftFlag(c, l) : c \in {"lift_blocked", "dispense_failure", "stack_full"}}

\* in state d a fault of lift l's own is set
OwnFaultSet(d, l) ==
    \E n \in LiftFaultNames(l) :
        n \in DOMAIN d.error_flags /\ d.error_flags[n]

\* the answered command is DISPENSE or RETURN on the known lift l
LiftCommandCase(l) ==
    /\ Len(last) >= 1
    /\ Rec.op \in {"DISPENSE", "RETURN"}
    /\ IntArgs(Rec.args, 2)
    /\ Rec.args[2].n = l

\* what DISPENSE or RETURN on lift l answers from state d with no fault
FaultFreeCode(d, op, l) ==
    LET occupied == d.stops[lift_map[l]].has_plate IN
    IF op = "DISPENSE"
        THEN IF occupied THEN 2001
             ELSE IF d.stacks[l].count = 0 THEN 2000 ELSE 0
        ELSE IF ~occupied THEN 2002
             ELSE IF d.stacks[l].count = d.stacks[l].capacity THEN 2003 ELSE 0

\* C18: lift faults are scoped to one lift: with no fault of lift 2's own
\* set, whatever is set for lift 1, DISPENSE and RETURN on lift 2 answer and
\* act as with no fault at all.
C18_LiftFaultScoped ==
    (LiftCommandCase(2) /\ ~OwnFaultSet(Rec.pre, 2)) =>
        /\ Rec.code = FaultFreeCode(Rec.pre, Rec.op, 2)
        /\ Rec.code = 0 =>
            /\ stops[lift_map[2]].has_plate = (Rec.op = "DISPENSE")
            /\ stacks[2].count = Rec.pre.stacks[2].count
                                   + (IF Rec.op = "DISPENSE" THEN -1 ELSE 1)

\* ---------------------------------------------------------------- C19
\* the answered command is RECEIVEPLATE on the stop s of the track
ReceiveCase(s) ==
    /\ Len(last) >= 1
    /\ Rec.op = "RECEIVEPLATE"
    /\ IntArgs(Rec.args, 2)
    /\ Rec.args[2].n = s

\* in state d the lift-blocked fault that covers stop s is set: s is a lift's
\* stop and the flag of that lift, or the flag of all lifts, is set
LiftBlockedAt(d, s) ==
    \E l \in DOMAIN lift_map :
        /\ lift_map[l] = s
        /\ \E n \in {"lift_blocked", LiftFlag("lift_blocked", l)} :
            n \in DOMAIN d.error_flags /\ d.error_flags[n]

\* C19: RECEIVEPLATE on an empty stop answers 0 and leaves a plate with a null
\* id there, unless the stop is a lift's stop whose lift-blocked fault is set
\* (2001); a lift-blocked fault never refuses a stop that is no lift's stop;
\* on an occupied stop the answer is 2001 with no change.
C19_ReceivePlate ==
    \A s \in StopIds :
        ReceiveCase(s) =>
            IF Rec.pre.stops[s].has_plate \/ LiftBlockedAt(Rec.pre, s)
                THEN Rec.code = 2001 /\ Device = Rec.pre
                ELSE /\ Rec.code = 0
                     /\ stops[s].has_plate
                     /\ stops[s].plate_id = None

\* ---------------------------------------------------------------- C20
\* C20: after set_error_flag(name, value), get_error_flags() maps name to
\* value, for every name, one not yet in the table included.
C20_SetErrorFlagUpsert ==
    (Len(last) >= 1 /\ Rec.op = "set_error_flag") =>
        /\ Rec.args[1] \in DOMAIN get_error_flags
        /\ get_error_flags[Rec.args[1]] = Rec.args[2]

\* ---------------------------------------------------------------- C21
\* C21: every error flag is false at the start, and the error-flag table
\* changes only in a step of set_error_flag or reset_state: a step that
\* answers a TCP command, whatever its result code, leaves the table as it was.
FlagWriters == {"set_error_flag", "reset_state"}

FlagsChangedBy(ops) ==
    error_flags' # error_flags =>
        /\ last' # <<>>
        /\ last'[Len(last')].op \in ops

CommandKeepsFlags ==
    (/\ last' # last
     /\ last' # <<>>
     /\ last'[Len(last')].op \notin DashboardOps) => error_flags' = error_flags

C21_FlagsOnlyByDashboard ==
    /\ \A k \in DOMAIN error_flags : ~error_flags[k]
    /\ [][FlagsChangedBy(FlagWriters) /\ CommandKeepsFlags]_vars

\* a command was refused because of a fault, and the fault is still set
C21_Witness ==
    /\ last # <<>>
    /\ Rec.op = "DISPENSE"
    /\ Rec.code = 2001
    /\ Rec.pre.error_flags["lift_blocked"]
    /\ error_flags["lift_blocked"]

\* ---------------------------------------------------------------- C22
\* the count nearest to want in 0..capacity
Nearest(want, capacity) ==
    CHOOSE n \in 0..capacity :
        \A m \in 0..capacity :
            (IF n < want THEN want - n ELSE n - want)
                <= (IF m < want THEN want - m ELSE m - want)

ResetCase == last # <<>> /\ Rec.op = "reset_state"

\* C22: after reset_state(overrides), from whatever state, every stop is
\* empty with no plate id and not ignored, every stack holds its override
\* (if one is given for its index, else its default at startup) clamped to
\* 0..capacity, every error flag is false and the plate-id counter is 1; a
\* second reset_state with the same argument changes nothing.
C22_ResetState ==
    ResetCase =>
        LET overrides == Rec.args
            d == Rec.pre
        IN  /\ DOMAIN stops = DOMAIN d.stops
            /\ \A i \in DOMAIN stops :
                   /\ ~stops[i].has_plate
                   /\ stops[i].plate_id = None
                   /\ ~stops[i].ignored
            /\ DOMAIN stacks = DOMAIN d.stacks
            /\ \A i \in DOMAIN stacks :
                   LET want == IF i \in DOMAIN overrides THEN overrides[i]
                               ELSE default_stack_counts[i]
                   IN  /\ stacks[i].capacity = d.stacks[i].capacity
                       /\ stacks[i].count = Nearest(want, stacks[i].capacity)
            /\ DOMAIN error_flags = DOMAIN d.error_flags
            /\ \A k \in DOMAIN error_flags : ~error_flags[k]
            /\ next_plate_id = 1
            /\ reset_state(overrides) = Device

\* a reset of a device that held a plate, an ignored stop or a fault and had
\* dispensed, with an override above the capacity
C22_Witness ==
    /\ ResetCase
    /\ Rec.pre.next_plate_id > 1
    /\ PlatesOn(Rec.pre.stops) > 0
    /\ FaultsIn(Rec.pre.error_flags) + IgnoredOn(Rec.pre.stops) > 0
    /\ \E i \in DOMAIN Rec.args : Rec.args[i] > Capacity /\ i \in DOMAIN stacks

\* ---------------------------------------------------------------- C23
SetCountCase == last # <<>> /\ Rec.op = "set_stack_count"

\* C23: set_stack_count(index, count) on a known stack returns true and
\* leaves that stack with count clamped to 0..capacity and everything else as
\* it was; on an unknown index it returns false and changes nothing.
C23_SetStackCount ==
    SetCountCase =>
        LET index == Rec.args[1]
            count == Rec.args[2]
            d == Rec.pre
        IN  IF index \in DOMAIN d.stacks
                THEN /\ Rec.ret = "True"
                     /\ DOMAIN stacks = DOMAIN d.stacks
                     /\ stacks[index].count =
                            Nearest(count, d.stacks[index].capacity)
                     /\ stacks[index].capacity = d.stacks[index].capacity
                     /\ \A j \in DOMAIN stacks \ {index} :
                            stacks[j] = d.stacks[j]
                     /\ stops = d.stops
                     /\ error_flags = d.error_flags
                     /\ next_plate_id = d.next_plate_id
                ELSE /\ Rec.ret = "False"
                     /\ Device = d

\* a count above the capacity was set on a stack that held less
C23_Witness ==
    /\ SetCountCase
    /\ Rec.ret = "True"
    /\ Rec.args[2] > Capacity
    /\ Rec.pre.stacks[Rec.args[1]].count < Capacity
    /\ stacks[Rec.args[1]].count = Capacity

\* ---------------------------------------------------------------- C24
SetPresenceCase == last # <<>> /\ Rec.op = "set_plate_presence"

LineEnds(t) == {k \in 1..Len(t) : t[k] = LF}

CompleteLines(t) ==
    LET ends == LineEnds(t)
        Before(k) == IF \E j \in ends : j < k
                         THEN CHOOSE j \in ends :
                                  j < k /\ \A i \in ends : i < k => i <= j
                         ELSE 0
        nth[n \in 0..Cardinality(ends)] ==
            IF n = 0 THEN 0
            ELSE CHOOSE k \in ends : Before(k) = nth[n - 1]
    IN  [n \in 1..Cardinality(ends) |-> SubSeq(t, nth[n - 1] + 1, nth[n] - 1)]

Unfinished(t) ==
    LET ends == LineEnds(t)
        lastEnd == IF ends = {} THEN 0
                   ELSE CHOOSE k \in ends : \A j \in ends : j <= k
    IN  SubSeq(t, lastEnd + 1, Len(t))

\* a line without its last character when that is "\r"
TrimOne(line) ==
    IF line # <<>> /\ line[Len(line)] = CR
        THEN SubSeq(line, 1, Len(line) - 1)
        ELSE line

\* a line without the "\r" characters at its end
TrimAll(line) ==
    LET keep == {k \in 0..Len(line) :
                    \A j \in (k + 1)..Len(line) : line[j] = CR}
    IN  SubSeq(line, 1, CHOOSE k \in keep : \A j \in keep : k <= j)

\* the commands of a byte stream: its complete lines, trimmed, that are not
\* empty
CommandLines(t, Trim(_)) ==
    LET trimmed == [n \in 1..Len(CompleteLines(t)) |-> Trim(CompleteLines(t)[n])]
    IN  SelectSeq(trimmed, LAMBDA l : l # <<>>)

\* what the server has received of what the client wrote
Received(c) ==
    SubSeq(conn[c].sent, 1, Len(conn[c].sent) - Len(conn[c].wire))

\* The answers of connection c are those of the commands it received, one
\* each and in the order of arrival; a command is handled only when the one
\* before it was answered; when the connection waits for bytes, every command
\* received has its answer and the buffer holds what follows the last "\n".
LinesAnswered(c, Trim(_)) ==
    LET want == CommandLines(Received(c), Trim)
        done == conn[c].done
        out == conn[c].out
    IN  /\ Len(done) <= Len(want)
        /\ \A k \in 1..Len(done) : done[k].line = want[k]
        /\ Len(out) <= Len(done)
        /\ Len(done) <= Len(out) + 1
        /\ \A k \in 1..Len(out) : out[k] = done[k]
        /\ (Len(done) = Len(out) + 1) <=> conn[c].state \in {"send", "send_failed"}
        /\ conn[c].state = "recv" =>
               /\ Len(out) = Len(want)
               /\ conn[c].buffer = Unfinished(Received(c))

Succeeded(op) ==
    {<<c, k>> \in Conns \X (1..MaxSends) :
        /\ k <= Len(conn[c].done)
        /\ conn[c].done[k].op = op
        /\ conn[c].done[k].code = 0}

\* one Device State for all connections: the lift stop, the stack and the
\* plate-id counter account for the commands of all of them together
SharedDevice ==
    LET d == Cardinality(Succeeded("DISPENSE"))
        r == Cardinality(Succeeded("RETURN"))
    IN  /\ next_plate_id = 1 + d
        /\ stacks[1].count = default_stack_counts[1] - d + r
        /\ stops[lift_map[1]].has_plate <=> d = r + 1
        /\ d \in {r, r + 1}

\* the step in which a connection ends changes no Device State and nothing
\* of another connection
EndsQuietly ==
    \A c \in Conns :
        (~Closed(c) /\ Closed(c)') =>
            /\ UNCHANGED DeviceFrame
            /\ \A o \in Conns \ {c} : conn'[o] = conn[o]

\* a connection that is open is never held up: the next step of its loop can
\* be taken whatever the other connections are doing or have done
KeepsServing ==
    \A c \in Conns :
        /\ conn[c].state = "lines" =>
               ENABLED (SkipLine(c) \/ HandleLine(c) \/ AwaitBytes(c))
        /\ conn[c].state = "send" => ENABLED SendAll(c)
        /\ (conn[c].state = "recv" /\ conn[c].wire # <<>>) => ENABLED Recv(c)

\* C26: when a connection ends (the peer closes, a receive or a write
\* fails), the end itself changes no Device State, the other connections go
\* on being served, and the Device State is one for all connections: what a
\* connection's commands did is what the others find.
C26_ConnectionEnds ==
    /\ [](SharedDevice /\ KeepsServing)
    /\ [][EndsQuietly]_vars

\* connection 1 dispensed and ended; connection 2 was then refused a
\* DISPENSE because of that plate, and was answered
C26_Witness ==
    /\ Closed(1)
    /\ Len(conn[1].done) = 1
    /\ conn[1].done[1].op = "DISPENSE" /\ conn[1].done[1].code = 0
    /\ Len(conn[2].out) = 1
    /\ conn[2].out[1].op = "DISPENSE" /\ conn[2].out[1].code = 2001

\* ---------------------------------------------------------------- C27
\* connection c is in the delay of a MOVEPLATE
Moving(c) == pc[c] = "sleep" /\ frame[c].op = "MOVEPLATE"

RegistryIds(am) == {m.plate_id : m \in am}

\* every entry of the registry is the move of a connection in its delay, and
\* no entry has a null plate id
RegistryOnlyInFlight ==
    \A m \in active_moves :
        /\ m.plate_id # None
        /\ \E c \in Conns :
               /\ Moving(c)
               /\ frame[c].plate_id = m.plate_id
               /\ frame[c].source = m.source
               /\ frame[c].dest = m.dest

RegistryEmptyAtRest == (\A c \in Conns : ~Moving(c)) => active_moves = {}

\* the step that starts a delay adds the entry of a plate with an id and
\* adds nothing for a plate with none; the step that ends a delay, with or
\* without an error, leaves no entry of its plate
RegistryStep ==
    \A c \in Conns :
        /\ (pc[c] = "idle" /\ pc'[c] = "sleep" /\ frame'[c].op = "MOVEPLATE") =>
               IF frame'[c].plate_id # None
                   THEN [plate_id |-> frame'[c].plate_id,
                         source |-> frame'[c].source,
                         dest |-> frame'[c].dest] \in active_moves'
                   ELSE active_moves' = active_moves
        /\ (Moving(c) /\ pc'[c] = "idle") =>
               frame[c].plate_id \notin RegistryIds(active_moves')

\* C27: the active-move registry holds an entry for plate id p only while a
\* MOVEPLATE carrying plate p is in its delay: the entry is added when the
\* delay starts and removed when it ends, also when it ends with an error; a
\* plate with no id never gets an entry; with no MOVEPLATE in flight the
\* registry is empty.
C27_ActiveMoves ==
    /\ [](RegistryOnlyInFlight /\ RegistryEmptyAtRest)
    /\ [][RegistryStep]_vars

\* one connection moves a plate with an id, which is registered, while
\* another moves a plate with none
C27_Witness ==
    /\ active_moves # {}
    /\ \E c \in Conns : Moving(c) /\ frame[c].plate_id = None
    /\ \E c \in Conns : Moving(c) /\ frame[c].plate_id \in RegistryIds(active_moves)

\* ---------------------------------------------------------------- C28
NoSharedPlateId ==
    \A i, j \in DOMAIN stops :
        (i # j /\ stops[i].plate_id # None)
            => stops[i].plate_id # stops[j].plate_id

\* the counter goes down only in a reset_state step
CounterStep ==
    next_plate_id' < next_plate_id =>
        last' = <<Heard(0, "reset_state", 0, "")>>

\* a DISPENSE that succeeds takes the counter's value and increments it
DispenseAssigns ==
    \A c \in Conns :
        (pc[c] = "idle" /\ pc'[c] = "sleep" /\ frame'[c].op = "DISPENSE") =>
            /\ frame'[c].plate_id = next_plate_id
            /\ next_plate_id' = next_plate_id + 1

\* C28: plate ids are unique: a successful DISPENSE assigns the counter's
\* value, which is above every id assigned since the last reset, the counter
\* goes down only by reset_state, and in every reachable state, a reset_state
\* during a MOVEPLATE included, no two stops carry the same non-null plate id.
C28_PlateIdsUnique ==
    /\ []NoSharedPlateId
    /\ [][CounterStep /\ DispenseAssigns]_vars

\* ---------------------------------------------------------------- C29
\* the command name of an entry of self.commands: its first word
NameChars(c) ==
    LET t == Spelling[c]
        blanks == {k \in 1..Len(t) : t[k] = " "}
    IN  IF blanks = {} THEN t
        ELSE SubSeq(t, 1, (CHOOSE k \in blanks : \A j \in blanks : k <= j) - 1)

\* the entries whose command name contains the filter word, whatever the
\* letter case
NameFiltered ==
    [query \in DOMAIN Spelling |->
        SelectSeq(commands,
                  LAMBDA c : Contains(LowerSeq(NameChars(c)),
                                      LowerSeq(Spelling[query])))]

NoRepeat(seq) == \A i, j \in 1..Len(seq) : seq[i] = seq[j] => i = j

ListCommandsCase ==
    /\ last # <<>>
    /\ Rec.op = "LISTCOMMANDS"
    /\ Len(Rec.args) = 1
    /\ ~Rec.args[1].isint

\* C29: LISTCOMMANDS answers code 0 and a message that counts its extra
\* lines; with no filter the extra lines are the entries of the command
\* registry (self.commands), each once; with a filter they are exactly the
\* entries whose command name contains the filter, whatever the letter case.
C29_ListCommands ==
    ListCommandsCase =>
        LET query == Rec.args[1].w IN
        /\ Rec.code = 0
        /\ Rec.msg = "Command list (" \o ToString(Len(Rec.extra)) \o " commands)"
        /\ NoRepeat(Rec.extra)
        /\ Rec.extra = IF query = "" THEN commands ELSE NameFiltered[query]

\* ---------------------------------------------------------------- C30
ListStopsCase ==
    /\ last # <<>>
    /\ Rec.op = "LISTSTOPS"
    /\ Len(Rec.args) = 1
    /\ Rec.args[1].isint

\* C30: LISTSTOPS for track 1 answers code 0, 'Track 1 has <n> stops:' and n
\* extra lines, n the number of stops; for another track it answers code 1
\* and no extra line.
C30_ListStops ==
    ListStopsCase =>
        LET n == Cardinality(DOMAIN stops) IN
        IF Rec.args[1].n = 1
            THEN /\ Rec.code = 0
                 /\ Rec.msg = "Track 1 has " \o ToString(n) \o " stops:"
                 /\ Len(Rec.extra) = n
            ELSE /\ Rec.code = 1
                 /\ Rec.extra = <<>>

\* ---------------------------------------------------------------- C31
\* connection c is in the delay of a handler
InDelay(c) == pc[c] = "sleep"

\* connection c's handler has returned and c was sent the answer
Answered(c) == pc[c] = "idle" /\ Len(last) = 1 /\ last[1].conn = c

\* a connection that is not in a handler can have its next command handled,
\* whatever handlers the other connections are in
NeverHeldUp ==
    \A c \in Conns : pc[c] = "idle" => ENABLED T_RETURN_begin(c)

FourDigits(code) ==
    <<Digit[(code \div 1000) + 1], Digit[((code \div 100) % 10) + 1],
      Digit[((code \div 10) % 10) + 1], Digit[(code % 10) + 1]>>

\* every extra line with its line end, in order
RECURSIVE ExtraLines(_)
ExtraLines(extra) ==
    IF extra = <<>> THEN <<>>
    ELSE <<extra[1], CR, LF>> \o ExtraLines(Tail(extra))

\* how often a piece of text occurs in what was written
Occurrences(text, piece) == Cardinality({k \in 1..Len(text) : text[k] = piece})

\* the write that answers a: the echo, the code as four digits with the
\* message, the extra lines, and 'End of List' exactly when there are extra
\* lines
Framed(a) ==
    /\ a.code \in 0..9999
    /\ a.text = <<a.echo, CR, LF>> \o FourDigits(a.code)
                    \o <<" ", a.msg, CR, LF>> \o ExtraLines(a.extra)
                    \o (IF a.extra # <<>> THEN <<"End of List", CR, LF>>
                                          ELSE <<>>)
    /\ Occurrences(a.text, "End of List") = IF a.extra # <<>> THEN 1 ELSE 0

\* C32: the response to one command line is, in order, the echoed command
\* line, one line with the code as exactly four zero-padded digits followed
\* by the message, then each extra line; 'End of List' ends the response
\* exactly when the handler returned at least one extra line (a LISTCOMMANDS
\* whose filter matches nothing gets none); the response is one write.
C32_ResponseFraming ==
    \A c \in Conns :
        /\ Len(conn[c].out) <= Len(conn[c].done)
        /\ \A k \in 1..Len(conn[c].out) :
            /\ conn[c].out[k] = conn[c].done[k]
            /\ Framed(conn[c].out[k])
            /\ conn[c].out[k].echo = "LISTCOMMANDS zzz" =>
                   /\ conn[c].out[k].extra = <<>>
                   /\ Occurrences(conn[c].out[k].text, "End of List") = 0

\* one connection was answered a LISTCOMMANDS with a filter that matches
\* nothing and then one that lists commands
C32_Witness ==
    \E c \in Conns :
        /\ Len(conn[c].out) = 2
        /\ conn[c].out[1].echo = "LISTCOMMANDS zzz"
        /\ conn[c].out[1].text =
               <<"LISTCOMMANDS zzz", CR, LF, "0", "0", "0", "0", " ",
                 "Command list (0 commands)", CR, LF>>
        /\ conn[c].out[2].echo = "LISTCOMMANDS Plate"
        /\ Len(conn[c].out[2].extra) > 0
        /\ conn[c].out[2].text[Len(conn[c].out[2].text) - 2] = "End of List"

\* ---------------------------------------------------------------- C33
\* the code of the first pair of conds whose condition holds, 0 when none
RECURSIVE FirstCode(_)
FirstCode(conds) ==
    IF conds = <<>> THEN 0
    ELSE IF conds[1][1] THEN conds[1][2]
    ELSE FirstCode(Tail(conds))

\* the documented conditions of DISPENSE on lift l in state d, in order
DispenseOrder(d, l) ==
    IF l \notin DOMAIN lift_map THEN <<(<<TRUE, 1>>)>>
    ELSE << <<d.error_flags["lift_blocked"], 2001>>,
            <<d.error_flags["dispense_failure"], 2000>>,
            <<d.stops[lift_map[l]].has_plate, 2001>>,
            <<d.stacks[l].count = 0, 2000>> >>

\* the documented conditions of RETURN on lift l in state d, in order
ReturnOrder(d, l) ==
    IF l \notin DOMAIN lift_map THEN <<(<<TRUE, 1>>)>>
    ELSE << <<d.error_flags["lift_blocked"], 2001>>,
            <<d.error_flags["stack_full"], 2003>>,
            <<~d.stops[lift_map[l]].has_plate, 2002>>,
            <<d.stacks[l].count = d.stacks[l].capacity, 2003>> >>

\* the documented conditions of MOVEPLATE from a to b in state d, in order
MoveOrder(d, a, b) ==
    IF a \notin StopIds \/ b \notin StopIds THEN <<(<<TRUE, 1>>)>>
    ELSE << <<d.error_flags["movement_blocked"], 57>>,
            <<~d.stops[a].has_plate, 2004>>,
            <<\E i \in Travelled(a, b) : d.stops[i].has_plate, 57>> >>

\* C33: for DISPENSE, RETURN and MOVEPLATE with well-formed arguments the
\* returned code is that of the first condition that holds, in the
\* documented order (DISPENSE: unknown lift 1, lift-blocked fault 2001,
\* dispense-failure fault 2000, lift stop occupied 2001, stack empty 2000;
\* RETURN: unknown lift 1, lift-blocked fault 2001, stack-full fault 2003,
\* no plate at lift 2002, stack at capacity 2003; MOVEPLATE: unknown stop 1,
\* movement-blocked fault 57, no plate at source 2004, path occupied 57),
\* and 0 only when none holds.
C33_FirstConditionWins ==
    last # <<>> =>
        /\ (Rec.op = "DISPENSE" /\ IntArgs(Rec.args, 2)) =>
               Rec.code = FirstCode(DispenseOrder(Rec.pre, Rec.args[2].n))
        /\ (Rec.op = "RETURN" /\ IntArgs(Rec.args, 2)) =>
               Rec.code = FirstCode(ReturnOrder(Rec.pre, Rec.args[2].n))
        /\ (Rec.op = "MOVEPLATE" /\ IntArgs(Rec.args, 3)) =>
               Rec.code = FirstCode(MoveOrder(Rec.pre, Rec.args[2].n,
                                              Rec.args[3].n))

\* a DISPENSE with the dispense-failure fault set and the lift's stop
\* occupied answered 2000, the code of the fault
C33_Witness ==
    /\ last # <<>>
    /\ Rec.op = "DISPENSE" /\ IntArgs(Rec.args, 2)
    /\ Rec.args[2].n \in DOMAIN lift_map
    /\ ~Rec.pre.error_flags["lift_blocked"]
    /\ Rec.pre.error_flags["dispense_failure"]
    /\ Rec.pre.stops[lift_map[Rec.args[2].n]].has_plate
    /\ Rec.code = 2000

\* ---------------------------------------------------------------- C34
\* a RETURN on a known lift, with no fault in its way and a plate on the
\* lift's stop, that found the stack at capacity and answered 2003
ReturnFullCase ==
    /\ last # <<>>
    /\ Rec.op = "RETURN" /\ IntArgs(Rec.args, 2)
    /\ Rec.args[2].n \in DOMAIN lift_map
    /\ ~Rec.pre.error_flags["lift_blocked"]
    /\ ~Rec.pre.error_flags["stack_full"]
    /\ Rec.pre.stops[lift_map[Rec.args[2].n]].has_plate
    /\ Rec.pre.stacks[Rec.args[2].n].count = Rec.pre.stacks[Rec.args[2].n].capacity
    /\ Rec.code = 2003

\* C34: a RETURN that answers 2003 because the lift's stack is already at
\* capacity leaves Device State unchanged: the plate and its id are still on
\* the lift's stop and the stack count is still equal to capacity.
C34_ReturnFullKeepsPlate ==
    ReturnFullCase =>
        /\ Device = Rec.pre
        /\ stops[lift_map[Rec.args[2].n]].has_plate
        /\ stops[lift_map[Rec.args[2].n]].plate_id =
               Rec.pre.stops[lift_map[Rec.args[2].n]].plate_id
        /\ stacks[Rec.args[2].n].count = stacks[Rec.args[2].n].capacity

\* ---------------------------------------------------------------- C35
\* the plates in the stacks sk
RECURSIVE PlatesIn(_, _)
PlatesIn(sk, idx) ==
    IF idx = {} THEN 0
    ELSE LET i == CHOOSE i \in idx : TRUE
         IN  sk[i].count + PlatesIn(sk, idx \ {i})

\* (sum of all stack counts) + (number of stops with has_plate) in state d
TotalPlates(d) == PlatesIn(d.stacks, DOMAIN d.stacks) + PlatesOn(d.stops)

TrackCommands == {"DISPENSE", "RETURN", "MOVEPLATE", "SHIFTPLATES"}

\* what the command or dashboard write answered last added to the total
PlatesAdded == TotalPlates(Device) - TotalPlates(Rec.pre)

\* only SENDPLATE (minus one), RECEIVEPLATE (plus one) and the dashboard
\* writes change the total
OnlyTransfersChangeTotal ==
    /\ PlatesAdded # 0 =>
           Rec.op \in {"SENDPLATE", "RECEIVEPLATE"} \cup DashboardOps
    /\ Rec.op = "SENDPLATE" => PlatesAdded = IF Rec.code = 0 THEN -1 ELSE 0
    /\ Rec.op = "RECEIVEPLATE" => PlatesAdded = IF Rec.code = 0 THEN 1 ELSE 0

\* C35: plates are conserved by the track commands: for DISPENSE, RETURN,
\* MOVEPLATE and SHIFTPLATES, whatever code they return, (sum of all stack
\* counts) + (number of stops with has_plate) is the same after the command
\* as before it; only SENDPLATE (minus one), RECEIVEPLATE (plus one) and the
\* dashboard writes change that total.
C35_PlatesConserved ==
    last # <<>> =>
        /\ Rec.op \in TrackCommands => PlatesAdded = 0
        /\ OnlyTransfersChangeTotal

\* ---------------------------------------------------------------- C36
\* the stop on which the handler that connection c is in puts its plate
\* after its delay
Target(c) ==
    IF frame[c].op = "MOVEPLATE" THEN frame[c].dest ELSE frame[c].stop_id

\* a step in which a delayed DISPENSE or MOVEPLATE puts its plate on a stop
\* finds that stop empty
PlacedOnEmpty ==
    \A c \in Conns :
        (/\ pc[c] = "sleep" /\ pc'[c] = "idle"
         /\ frame[c].op \in {"DISPENSE", "MOVEPLATE"}
         /\ last'[1].code = 0)
            => ~stops[Target(c)].has_plate

\* C36: under any interleaving of commands from concurrent connections and
\* dashboard writes a stop never receives a second plate: when a delayed
\* MOVEPLATE puts its plate on the destination, or a delayed DISPENSE puts
\* its plate on the lift's stop, that stop is empty at the moment of the
\* write.
C36_NoSecondPlate == [][PlacedOnEmpty]_vars

\* ---------------------------------------------------------------- C37
\* the plate with an id that was on stop i is now on stop j with that id,
\* and stop i, when the plate left it, no longer carries the id
IdWentWith(i, j) ==
    (Rec.pre.stops[i].has_plate /\ Rec.pre.stops[i].plate_id # None) =>
        /\ stops[j].has_plate
        /\ stops[j].plate_id = Rec.pre.stops[i].plate_id
        /\ i # j => stops[i].plate_id # Rec.pre.stops[i].plate_id

\* C37: a plate's id travels with the plate: after a successful MOVEPLATE or
\* SHIFTPLATES the stop that now holds a dispensed plate carries the id
\* assigned at DISPENSE, and the stop the plate left no longer carries it.
C37_IdTravels ==
    (last # <<>> /\ Rec.code = 0) =>
        /\ (Rec.op = "MOVEPLATE" /\ IntArgs(Rec.args, 3)) =>
               IdWentWith(Rec.args[2].n, Rec.args[3].n)
        /\ ShiftCase =>
               \A i \in StopIds :
                   CanAdvance(Rec.pre, i, ShiftStep) =>
                       IdWentWith(i, i + ShiftStep)

\* ---------------------------------------------------------------- C38
\* the plate-handling commands, with every stop and lift the model sends
PlateCommands ==
    {<<n, <<Track, l>> >> : n \in {"DISPENSE", "RETURN"}, l \in LiftFields}
    \cup {<<"MOVEPLATE", <<Track, a, b>> >> : a \in StopFields, b \in StopFields}
    \cup {<<"SHIFTPLATES", <<Track, WordF(d)>> >> : d \in {"forward", "reverse"}}
    \cup {<<n, <<Track, t>> >> :
              n \in {"SENDPLATE", "RECEIVEPLATE", "HASPLATE"}, t \in StopFields}
    \cup {<<"GETSTOPSENSORS", <<Track>> >>}

\* what a command answers and what it leaves of has_plate, plate_id, the
\* stack counts and the plate-id counter
Outcome(r) ==
    [code |-> r.code, msg |-> r.msg, extra |-> r.extra,
     plates |-> [i \in DOMAIN r.stops |->
                    <<r.stops[i].has_plate, r.stops[i].plate_id>>],
     stacks |-> r.stacks, next_plate_id |-> r.next_plate_id]

\* this state and the next differ in ignored flags and in nothing else of
\* Device State
IgnoredOnlyDiffers ==
    /\ stops' # stops
    /\ \A i \in DOMAIN stops :
        /\ stops'[i].has_plate = stops[i].has_plate
        /\ stops'[i].plate_id = stops[i].plate_id
    /\ UNCHANGED <<stacks, error_flags, next_plate_id>>

\* every plate-handling command has the same outcome in both states
SameOutcomes ==
    \A cmd \in PlateCommands :
        Outcome(handle_command(cmd[1], cmd[2]))
            = Outcome(handle_command(cmd[1], cmd[2]))'

\* IGNORESTOP and IGNOREALLSTOPS change only ignored flags
IgnoreWritesIgnored ==
    (last # <<>> /\ Rec.op \in {"IGNORESTOP", "IGNOREALLSTOPS"}) =>
        /\ \A i \in DOMAIN stops :
            /\ stops[i].has_plate = Rec.pre.stops[i].has_plate
            /\ stops[i].plate_id = Rec.pre.stops[i].plate_id
        /\ stacks = Rec.pre.stacks
        /\ error_flags = Rec.pre.error_flags
        /\ next_plate_id = Rec.pre.next_plate_id

\* C38: the ignored flag is inert for plate handling: in two states that
\* differ only in the ignored flags of stops, each of DISPENSE, RETURN,
\* MOVEPLATE, SHIFTPLATES, SENDPLATE, RECEIVEPLATE, HASPLATE and
\* GETSTOPSENSORS returns the same code and message and has the same effect
\* on has_plate, plate_id, stack counts and the plate-id counter; IGNORESTOP
\* and IGNOREALLSTOPS change only ignored flags.
C38_IgnoredIsInert ==
    /\ []IgnoreWritesIgnored
    /\ [][IgnoredOnlyDiffers => SameOutcomes]_vars

\* a stop that holds a plate, with a second plate one stop further that
\* cannot move past it, has just been set ignored
C38_Witness ==
    /\ last # <<>>
    /\ Rec.op = "IGNORESTOP" /\ Rec.code = 0
    /\ \E i \in StopIds :
        /\ stops[i].ignored /\ ~Rec.pre.stops[i].ignored
        /\ stops[i].has_plate
        /\ (i + 1) \in StopIds /\ stops[i + 1].has_plate

\* ---------------------------------------------------------------- C39
\* the answered command is a MOVEPLATE from a stop to itself, started with a
\* plate on that stop and the movement-blocked fault clear
SelfMoveCase ==
    /\ last # <<>>
    /\ Rec.op = "MOVEPLATE" /\ IntArgs(Rec.args, 3)
    /\ Rec.args[2].n = Rec.args[3].n
    /\ Rec.args[2].n \in StopIds
    /\ Rec.pre.stops[Rec.args[2].n].has_plate
    /\ ~Rec.pre.error_flags["movement_blocked"]

\* C39: MOVEPLATE with source equal to destination and a plate at that stop
\* (no movement-blocked fault) returns code 0 and leaves Device State exactly
\* as it was: the stop is still occupied with the same plate id, nothing is
\* left in the active-move registry, and no other stop changes.
C39_SelfMove ==
    SelfMoveCase =>
        /\ Rec.code = 0
        /\ Device = Rec.pre
        /\ stops[Rec.args[2].n].has_plate
        /\ stops[Rec.args[2].n].plate_id = Rec.pre.stops[Rec.args[2].n].plate_id
        /\ active_moves = {}

\* a dispensed plate was moved from its stop to the same stop while another
\* stop held a plate
C39_Witness ==
    /\ SelfMoveCase
    /\ Rec.code = 0
    /\ Rec.pre.stops[Rec.args[2].n].plate_id # None
    /\ \E i \in StopIds \ {Rec.args[2].n} : stops[i].has_plate

\* ---------------------------------------------------------------- C40
\* the client's place in its program
Script == conn[1].script

\* every answer so far was code 0, but for the DISPENSE that found the input
\* stack empty and ended the run
AllAccepted ==
    /\ Script.phase # "prompt"
    /\ last # <<>> =>
           \/ Rec.code = 0
           \/ /\ Rec.op = "DISPENSE" /\ Rec.code = 2000
              /\ Script.phase = "done"

\* the device at the end of the run
Finished ==
    /\ stacks[1].count = 0
    /\ stacks[2].count = InputCount
    /\ \A i \in DOMAIN stops : ~stops[i].has_plate /\ ~stops[i].ignored

\* C40: from the initial state (stack 1 = 15, stack 2 = 0, all stops empty,
\* no fault) with a single client, the batch workflow (for each camera stop
\* in the order 8,7,6,5,2: DISPENSE 1,1; MOVEPLATE 1,3,stop; IGNORESTOP on;
\* then for the filled stops in reverse order: IGNORESTOP off; MOVEPLATE
\* 1,stop,4; RETURN 1,2) receives code 0 for every command except the final
\* DISPENSE, which returns 2000, and terminates with stack 1 = 0, stack 2 =
\* 15 and every stop empty and not ignored.
C40_BatchWorkflow ==
    /\ [](AllAccepted /\ (Script.phase = "done" => Finished))
    /\ <>(Script.phase = "done")

\* the run has ended on the DISPENSE that found the input stack empty, after
\* fifteen plates went through
C40_Witness ==
    /\ Script.phase = "done"
    /\ last # <<>> /\ Rec.op = "DISPENSE" /\ Rec.code = 2000
    /\ next_plate_id = InputCount + 1
    /\ stacks[2].count = InputCount

====
